---------------------------- MODULE Spec2Model ----------------------------
(***************************************************************************)
(* Archetype column storage (src/src/archetype/data_access.rs), the        *)
(* archetype registry (src/src/archetype_registry/mod.rs) and the          *)
(* component-group projection (src/src/component_group.rs).                *)
(*                                                                         *)
(* Rust arrays, slices and Vecs are functions with domain 0..n-1, so that  *)
(* every index of the model is the index of the source.  Column memory is  *)
(* modelled byte by byte: a column of an archetype with capacity `cap` and *)
(* component size `s` is an array of cap*s bytes.                          *)
(***************************************************************************)
EXTENDS Integers, Sequences, FiniteSets, TLC

(***************************************************************************)
(* Program constants.                                                      *)
(***************************************************************************)
\* src/src/archetype_registry/mod.rs:22-47: sorted_mappings is an array of
\* MAX_COMPONENTS_PER_ENTITY vectors and Default builds fourteen of them.
MAX_COMPONENTS_PER_ENTITY == 14

\* The three constants below are set in constants.rs.  The model gives them
\* small values, so that the limits they set are reached: the crate's
\* MAX_ARCHETYPE_COUNT is 65535, its MAX_ENTITIES_PER_ARCHETYPE fits in a
\* u32 and its DEFAULT_ARCHETYPE_ALLOCATION_SIZE is at least 1, typically 64.
MAX_ARCHETYPE_COUNT == 2

MAX_ENTITIES_PER_ARCHETYPE == 9

DEFAULT_ARCHETYPE_ALLOCATION_SIZE == 2

\* The capacity ArchetypeRegistry::default() gives the archetypes Vec.
ARCHETYPES_CAPACITY == 128

(***************************************************************************)
(* Bounds of the model.                                                    *)
(***************************************************************************)
\* Component types 1..NumSmallTypes are combined freely into descriptors
\* and groups; the types above them only pad a descriptor up to a length
\* of MAX_COMPONENTS_PER_ENTITY.
NumSmallTypes == 3

\* Entities pushed in one behaviour.
MaxPushes == 4

\* resize_capacity is called with changes of -MaxResizeDelta..MaxResizeDelta.
MaxResizeDelta == 2

\* Rows of a source archetype when a component is added to one of them.
MaxSourceRows == 2

\* SpecGrowth: the number of entities pushed onto the archetype.
MaxGrowthPushes == 9

\* SpecGroup: slices are asked for with lengths 0..MaxSliceLen.
MaxSliceLen == 2

(***************************************************************************)
(* Arrays (0-based).                                                       *)
(***************************************************************************)
ArrLen(a) == Cardinality(DOMAIN a)

Arr(s) == [i \in 0..(Len(s) - 1) |-> s[i + 1]]

EmptyArr == Arr(<<>>)

ArrPush(a, x) == [i \in 0..ArrLen(a) |-> IF i < ArrLen(a) THEN a[i] ELSE x]

\* A variant of Vec::insert that puts the element at the end.
ArrInsertAtEnd(a, index, x) == ArrPush(a, x)

\* Vec::insert(index, element): shifts everything from index to the right.
ArrInsert(a, index, x) ==
    [i \in 0..ArrLen(a) |->
        IF i < index THEN a[i] ELSE IF i = index THEN x ELSE a[i - 1]]

ArrRange(a) == {a[i] : i \in DOMAIN a}

(***************************************************************************)
(* Component types.  A ComponentTypeId is a 16-bit number; the model's     *)
(* component types are 1..MAX_COMPONENTS_PER_ENTITY.  ComponentSize is the *)
(* `size` field of the type's ComponentDescriptor (size_of::<T>()).        *)
(***************************************************************************)
ComponentTypeIds == 1..MAX_COMPONENTS_PER_ENTITY

SmallTypes == 1..NumSmallTypes

PadTypes == (NumSmallTypes + 1)..MAX_COMPONENTS_PER_ENTITY

ComponentSize(t) == IF t % 2 = 0 THEN 2 ELSE 1

\* The ascending array of a set of ids.
SortedIds(S) ==
    [j \in 0..(Cardinality(S) - 1) |->
        CHOOSE t \in S : Cardinality({u \in S : u < t}) = j]

(***************************************************************************)
(* ArchetypeId: FNV-1a, 64 bits, folded over the little-endian bytes of    *)
(* the sorted ids.  A 64-bit value is four 16-bit limbs, lowest first.     *)
(***************************************************************************)
RECURSIVE BitXor(_, _, _)
BitXor(a, b, n) ==
    IF n = 0 THEN 0
    ELSE (((a % 2) + (b % 2)) % 2) + 2 * BitXor(a \div 2, b \div 2, n - 1)

FnvOffsetBasis == <<8997, 33826, 40164, 52210>>

\* h * 0x100000001b3 mod 2^64 = (h * 0x1b3 + h * 2^40) mod 2^64
FnvMulPrime(h) ==
    LET p0 == h[1] * 435
        p1 == h[2] * 435 + (p0 \div 65536)
        p2 == h[3] * 435 + (p1 \div 65536)
        p3 == h[4] * 435 + (p2 \div 65536)
        s2 == h[1] * 256
        s3 == h[2] * 256 + (s2 \div 65536)
        r2 == (p2 % 65536) + (s2 % 65536)
        r3 == (p3 % 65536) + (s3 % 65536) + (r2 \div 65536)
    IN  <<p0 % 65536, p1 % 65536, r2 % 65536, r3 % 65536>>

FnvByte(h, b) ==
    FnvMulPrime(<<(h[1] - (h[1] % 256)) + BitXor(h[1] % 256, b, 8),
                  h[2], h[3], h[4]>>)

\* The test h = h makes TLC evaluate h at every step rather than build a
\* chain of unevaluated steps as deep as the descriptor is long.
RECURSIVE FnvFold(_, _, _)
FnvFold(h, ids, i) ==
    IF h = h /\ i >= ArrLen(ids) THEN h
    ELSE FnvFold(FnvByte(FnvByte(h, ids[i] % 256), ids[i] \div 256), ids, i + 1)

Fnv1a64(ids) == FnvFold(FnvOffsetBasis, ids, 0)

\* The ids of the descriptors the model meets, folded once: the small types
\* in every combination, alone or together with all the padding types.
KnownIdSets ==
    (SUBSET SmallTypes) \cup {PadTypes \cup S : S \in SUBSET SmallTypes}

Fnv1a64Table == [S \in KnownIdSets |-> Fnv1a64(SortedIds(S))]

ArchetypeIdOf(ids) ==
    IF ArrRange(ids) \in KnownIdSets /\ ids = SortedIds(ArrRange(ids))
    THEN Fnv1a64Table[ArrRange(ids)]
    ELSE Fnv1a64(ids)

\* u64 comparison, highest limb first.
IdLess(a, b) ==
    \/ a[4] < b[4]
    \/ a[4] = b[4] /\ a[3] < b[3]
    \/ a[4] = b[4] /\ a[3] = b[3] /\ a[2] < b[2]
    \/ a[4] = b[4] /\ a[3] = b[3] /\ a[2] = b[2] /\ a[1] < b[1]

INVALID_ARCHETYPE_ID == <<0, 0, 0, 0>>

(***************************************************************************)
(* ArchetypeDescriptor: the components sorted ascending by id, no          *)
(* duplicates, 1..MAX_COMPONENTS_PER_ENTITY of them, and the ArchetypeId.  *)
(***************************************************************************)
INVALID_DESCRIPTOR ==
    [len |-> 0, components |-> EmptyArr, archetype_id |-> INVALID_ARCHETYPE_ID]

DescriptorOfSet(S) ==
    [len |-> Cardinality(S),
     components |-> SortedIds(S),
     archetype_id |-> ArchetypeIdOf(SortedIds(S))]

\* from_unsorted: sort ascending, reject duplicates and lengths out of bounds.
FromUnsorted(list) ==
    IF \/ ArrLen(list) = 0
       \/ ArrLen(list) > MAX_COMPONENTS_PER_ENTITY
       \/ Cardinality(ArrRange(list)) # ArrLen(list)
    THEN INVALID_DESCRIPTOR
    ELSE DescriptorOfSet(ArrRange(list))

IsValid(d) == d.archetype_id # INVALID_ARCHETYPE_ID

\* A descriptor value whose length is above MAX_COMPONENTS_PER_ENTITY: no
\* constructor returns it, and the registry's guard tests for it.
OVERLONG_DESCRIPTOR ==
    [len |-> MAX_COMPONENTS_PER_ENTITY + 1,
     components |-> SortedIds(ComponentTypeIds),
     archetype_id |-> ArchetypeIdOf(SortedIds(ComponentTypeIds))]

IdSet(d) == ArrRange(d.components)

\* add_component: None (INVALID_DESCRIPTOR here) if already present or the
\* length would exceed MAX_COMPONENTS_PER_ENTITY.
AddComponent(d, t) ==
    IF t \in IdSet(d) \/ d.len + 1 > MAX_COMPONENTS_PER_ENTITY
    THEN INVALID_DESCRIPTOR
    ELSE DescriptorOfSet(IdSet(d) \cup {t})

\* index_of: the column of id t.
IndexOf(d, t) == CHOOSE i \in DOMAIN d.components : d.components[i] = t

\* is_superset_of, against the types of a group
IsSupersetOf(d, G) == ArrRange(G) \subseteq IdSet(d)

(***************************************************************************)
(* ComponentGroup: a tuple of distinct component types in the caller's     *)
(* declaration order (an array of ids).                                    *)
(***************************************************************************)
GroupDescriptor(G) == FromUnsorted(G)

\* G::DESCRIPTOR.len() and G::DESCRIPTOR.archetype().components()
GroupLen(G) == ArrLen(G)

GroupComponents(G) == SortedIds(ArrRange(G))

\* unsorted_to_sorted(i): the sorted column of the i-th declared type.
UnsortedToSorted(G, i) == Cardinality({u \in ArrRange(G) : u < G[i]})

(***************************************************************************)
(* Memory.  A pointer is null or owns an allocation: an array of bytes.    *)
(* A byte of a component value is <<e, t, k>>: byte k of the component of  *)
(* type t of the entity value e; a byte never written is UNINIT.           *)
(***************************************************************************)
UNINIT == <<0, 0, 0>>

NULL == [null |-> TRUE, mem |-> EmptyArr]

Alloc(n) == [null |-> FALSE, mem |-> [i \in 0..(n - 1) |-> UNINIT]]

\* realloc: the old contents up to the smaller of the two sizes.
Realloc(p, n) ==
    [null |-> FALSE,
     mem |-> [i \in 0..(n - 1) |->
                 IF ~p.null /\ i < ArrLen(p.mem) THEN p.mem[i] ELSE UNINIT]]

\* Whether bytes off .. off+n-1 lie in the allocation of p.
InBounds(p, off, n) == ~p.null /\ off >= 0 /\ off + n <= ArrLen(p.mem)

ReadBytes(p, off, n) == [k \in 0..(n - 1) |-> p.mem[off + k]]

WriteBytes(p, off, bytes) ==
    [p EXCEPT !.mem =
        [i \in DOMAIN p.mem |->
            IF off <= i /\ i < off + ArrLen(bytes) THEN bytes[i - off] ELSE p.mem[i]]]

\* The bytes of the component of type t of entity value e.
ComponentValue(e, t) == [k \in 0..(ComponentSize(t) - 1) |-> <<e, t, k>>]

\* A group value: the fields of the caller's tuple, in declaration order.
GroupValue(e, G) == [i \in DOMAIN G |-> ComponentValue(e, G[i])]

\* EntityMetadata of the entity value e, and a metadata slot never written.
Metadata(e) == e

NO_METADATA == 0

(***************************************************************************)
(* Archetype: descriptor, pointers[MAX_COMPONENTS_PER_ENTITY],             *)
(* entity_metadata, entity_count, capacity.                                *)
(***************************************************************************)
ColumnIndices == 0..(MAX_COMPONENTS_PER_ENTITY - 1)

ColumnSize(a, c) == ComponentSize(a.descriptor.components[c])

AllocMetadata(n) == [null |-> FALSE, mem |-> [i \in 0..(n - 1) |-> NO_METADATA]]

ReallocMetadata(p, n) ==
    [null |-> FALSE,
     mem |-> [i \in 0..(n - 1) |->
                 IF ~p.null /\ i < ArrLen(p.mem) THEN p.mem[i] ELSE NO_METADATA]]

\* Archetype::with_capacity(descriptor, capacity)
WithCapacity(d, capacity) ==
    [descriptor |-> d,
     pointers |-> [c \in ColumnIndices |->
                     IF c < d.len THEN Alloc(capacity * ComponentSize(d.components[c]))
                     ELSE NULL],
     entity_metadata |-> AllocMetadata(capacity),
     entity_count |-> 0,
     capacity |-> capacity]

IsFull(a) == a.entity_count = a.capacity

\* dealloc: frees the columns in order and returns at the first null one;
\* then frees the metadata and sets capacity to zero.
Dealloc(a) ==
    LET nulls == {c \in 0..(a.descriptor.len - 1) : a.pointers[c].null}
        stop  == IF nulls = {} THEN a.descriptor.len
                 ELSE CHOOSE c \in nulls : \A x \in nulls : c <= x
        freed == [c \in ColumnIndices |-> IF c < stop THEN NULL ELSE a.pointers[c]]
    IN  IF stop < a.descriptor.len
        THEN [a EXCEPT !.pointers = freed]
        ELSE [a EXCEPT !.pointers = freed, !.entity_metadata = NULL, !.capacity = 0]

\* The guard of resize_capacity that sends it to dealloc.
ResizeDeallocates(new_capacity) ==
    new_capacity <= 0 \/ new_capacity >= MAX_ENTITIES_PER_ARCHETYPE

\* resize_capacity(change_in_entity_count)
ResizeCapacity(a, change_in_entity_count) ==
    LET new_capacity == a.capacity + change_in_entity_count
    IN  IF ResizeDeallocates(new_capacity)
        THEN Dealloc(a)
        ELSE [a EXCEPT
                !.entity_metadata = ReallocMetadata(@, new_capacity),
                !.pointers = [c \in ColumnIndices |->
                                IF c < a.descriptor.len
                                THEN Realloc(a.pointers[c], ColumnSize(a, c) * new_capacity)
                                ELSE a.pointers[c]],
                !.capacity = new_capacity]

(***************************************************************************)
(* The projection of a group onto sorted columns.                          *)
(***************************************************************************)
\* as_sorted_pointers: slot unsorted_to_sorted(i) holds the address of field
\* i of the caller's tuple (the field's index here); NO_FIELD is a null slot.
NO_FIELD == -1

\* A variant of as_sorted_pointers that stores field i in slot i.
AsSortedPointersByPosition(G, ptrs) ==
    [j \in ColumnIndices |-> IF j \in DOMAIN G THEN j ELSE ptrs[j]]

\* as_sorted_pointers(&mut self, ptrs): one assignment
\* ptrs[unsorted_to_sorted(i)] = &mut self.i for each field i, the other
\* slots of ptrs keeping what they held.
AsSortedPointersInto(G, ptrs) ==
    [j \in ColumnIndices |->
        IF \E i \in DOMAIN G : UnsortedToSorted(G, i) = j
        THEN CHOOSE i \in DOMAIN G : UnsortedToSorted(G, i) = j
        ELSE ptrs[j]]

\* [core::ptr::null_mut(); MAX_COMPONENTS_PER_ENTITY]
NullPointers == [j \in ColumnIndices |-> NO_FIELD]

\* as_sorted_pointers on an array of null pointers, as the archetype calls it.
AsSortedPointers(G) == AsSortedPointersInto(G, NullPointers)

\* A variant of pointers_as_ref_tuple that takes slot i for field i.
PointersAsRefTupleByPosition(G, sorted_pointers) ==
    [i \in DOMAIN G |-> sorted_pointers[i]]

\* pointers_as_ref_tuple / pointers_as_mut_ref_tuple: element i of the tuple
\* refers to what sorted_pointers[unsorted_to_sorted(i)] points to.
PointersAsRefTuple(G, sorted_pointers) ==
    [i \in DOMAIN G |-> sorted_pointers[UnsortedToSorted(G, i)]]

(***************************************************************************)
(* Operations return [a: the archetype, fault: "none" | "panic" | "ub",    *)
(* ...].  At a fault `a` is the archetype at the faulting access: the      *)
(* model says nothing of what an undefined access does afterwards.         *)
(***************************************************************************)
\* write_entity_unchecked: one step of the loop over the columns of G.
RECURSIVE WriteColumns(_, _, _, _, _)
WriteColumns(a, i, index, G, entity) ==
    IF i >= GroupLen(G) THEN [a |-> a, fault |-> "none"]
    ELSE LET size  == ComponentSize(GroupComponents(G)[i])
             off   == size * index
             field == AsSortedPointers(G)[i]
         IN  IF ~InBounds(a.pointers[i], off, size)
             THEN [a |-> a, fault |-> "ub"]
             ELSE WriteColumns(
                    [a EXCEPT !.pointers[i] = WriteBytes(@, off, entity[field])],
                    i + 1, index, G, entity)

\* The row at `index` as the drop handlers would be handed it: one call for
\* each column, with the bytes the column holds there.
DropOccupant(a, index) ==
    [idx \in 0..(a.descriptor.len - 1) |->
        [column |-> idx,
         offset |-> index * ColumnSize(a, idx),
         count  |-> 1,
         bytes  |-> ReadBytes(a.pointers[idx], index * ColumnSize(a, idx),
                              ColumnSize(a, idx))]]

\* A variant of write_entity_unchecked that drops the occupant of the row
\* before it writes, as an assignment would.
WriteEntityDroppingOccupant(a, index, metadata, G, entity) ==
    LET w == WriteColumns(a, 0, index, G, entity)
    IN  IF w.fault # "none" THEN [a |-> w.a, fault |-> w.fault, drops |-> EmptyArr]
        ELSE IF ~InBounds(w.a.entity_metadata, index, 1)
        THEN [a |-> w.a, fault |-> "ub", drops |-> EmptyArr]
        ELSE [a |-> [w.a EXCEPT !.entity_metadata.mem[index] = metadata],
              fault |-> "none", drops |-> DropOccupant(a, index)]

\* write_entity_unchecked(index, metadata, entity).  The metadata slot is
\* written through the pointer of the metadata array: slot `index` of the
\* allocation, whether or not index < entity_count.  drops: the calls of
\* drop handlers it makes, none.
WriteEntityUnchecked(a, index, metadata, G, entity) ==
    LET w == WriteColumns(a, 0, index, G, entity)
    IN  IF w.fault # "none" THEN [a |-> w.a, fault |-> w.fault, drops |-> EmptyArr]
        ELSE IF ~InBounds(w.a.entity_metadata, index, 1)
        THEN [a |-> w.a, fault |-> "ub", drops |-> EmptyArr]
        ELSE [a |-> [w.a EXCEPT !.entity_metadata.mem[index] = metadata],
              fault |-> "none", drops |-> EmptyArr]

\* Whether resize_capacity hands a null pointer to realloc: the archetype
\* was deallocated (capacity 0, null columns) and the new capacity is in
\* range. GlobalAlloc::realloc requires a pointer currently allocated.
ReallocatesNull(a, change_in_entity_count) ==
    /\ ~ResizeDeallocates(a.capacity + change_in_entity_count)
    /\ \/ a.entity_metadata.null
       \/ \E c \in 0..(a.descriptor.len - 1) : a.pointers[c].null

\* The outcomes of the realloc calls of resize_capacity: TRUE, the blocks
\* are resized (a null pointer is served as a fresh allocation, as the
\* system allocator does); FALSE, the call on a null pointer misbehaves.
ReallocOutcomes(a, change_in_entity_count) ==
    IF ReallocatesNull(a, change_in_entity_count) THEN BOOLEAN ELSE {TRUE}

\* The amount push_entity_unchecked grows a full archetype by.
AdditionalCapacity(a) ==
    IF a.capacity = 0 THEN DEFAULT_ARCHETYPE_ALLOCATION_SIZE ELSE a.capacity

\* The outcomes of the resize push_entity_unchecked makes when full.
PushReallocOutcomes(a) ==
    IF IsFull(a) THEN ReallocOutcomes(a, AdditionalCapacity(a)) ELSE {TRUE}

\* push_entity_unchecked(metadata, entity) -> entity_index
PushEntityUnchecked(a, metadata, G, entity) ==
    LET grown == IF IsFull(a) THEN ResizeCapacity(a, AdditionalCapacity(a)) ELSE a
        entity_index == grown.entity_count
        w == WriteEntityUnchecked(grown, entity_index, metadata, G, entity)
    IN  IF w.fault # "none" THEN [a |-> w.a, fault |-> w.fault, index |-> entity_index]
        ELSE [a |-> [w.a EXCEPT !.entity_count = @ + 1],
              fault |-> "none", index |-> entity_index]

\* A one-way variant of the column loop of swap_entities: row `second` is
\* copied over row `first` and row `second` is left as it was.
RECURSIVE SwapColumnsOneWay(_, _, _, _)
SwapColumnsOneWay(a, idx, first, second) ==
    IF idx >= a.descriptor.len THEN [a |-> a, fault |-> "none"]
    ELSE LET size == ColumnSize(a, idx)
             p    == a.pointers[idx]
         IN  IF \/ ~InBounds(p, first * size, size)
                \/ ~InBounds(p, second * size, size)
             THEN [a |-> a, fault |-> "ub"]
             ELSE SwapColumnsOneWay(
                    [a EXCEPT !.pointers[idx] =
                        WriteBytes(p, first * size, ReadBytes(p, second * size, size))],
                    idx + 1, first, second)

\* swap_entities(first, second): for every column swap `size` bytes of the
\* two rows (swap_nonoverlapping), then swap the two metadata slots of the
\* slice entity_metadata_mut() (length entity_count, bounds-checked).
RECURSIVE SwapColumns(_, _, _, _)
SwapColumns(a, idx, first, second) ==
    IF idx >= a.descriptor.len THEN [a |-> a, fault |-> "none"]
    ELSE LET size == ColumnSize(a, idx)
             p    == a.pointers[idx]
         IN  IF \/ ~InBounds(p, first * size, size)
                \/ ~InBounds(p, second * size, size)
                \/ (first = second /\ size > 0)
             THEN [a |-> a, fault |-> "ub"]
             ELSE SwapColumns(
                    [a EXCEPT !.pointers[idx] =
                        WriteBytes(WriteBytes(p, first * size,
                                              ReadBytes(p, second * size, size)),
                                   second * size, ReadBytes(p, first * size, size))],
                    idx + 1, first, second)

\* A variant of swap_entities that swaps the columns and leaves the
\* metadata slots as they are.
SwapEntitiesColumnsOnly(a, first, second) ==
    LET w == SwapColumns(a, 0, first, second)
    IN  IF w.fault # "none" THEN w
        ELSE IF first >= a.entity_count \/ second >= a.entity_count
        THEN [a |-> w.a, fault |-> "panic"]
        ELSE [a |-> w.a, fault |-> "none"]

SwapEntities(a, first, second) ==
    LET w == SwapColumns(a, 0, first, second)
    IN  IF w.fault # "none" THEN w
        ELSE IF first >= a.entity_count \/ second >= a.entity_count
        THEN [a |-> w.a, fault |-> "panic"]
        ELSE [a |-> [w.a EXCEPT
                       !.entity_metadata.mem[first] = a.entity_metadata.mem[second],
                       !.entity_metadata.mem[second] = a.entity_metadata.mem[first]],
              fault |-> "none"]

\* drop_entity(index): the calls drop_handler(pointers[idx] + index*size, 1),
\* one for every column, each recorded with the bytes it is handed.
DropEntity(a, index) ==
    [idx \in 0..(a.descriptor.len - 1) |->
        [column |-> idx,
         offset |-> index * ColumnSize(a, idx),
         count  |-> 1,
         bytes  |-> ReadBytes(a.pointers[idx], index * ColumnSize(a, idx),
                              ColumnSize(a, idx))]]

\* A drop handler handed memory outside the column's allocation.
DropOutOfBounds(a, index) ==
    \E idx \in 0..(a.descriptor.len - 1) :
        ~InBounds(a.pointers[idx], index * ColumnSize(a, idx), ColumnSize(a, idx))

\* A variant of drop_entities that hands the drop handlers every row of the
\* allocation, not only the rows below entity_count.
DropEntitiesToCapacity(a) ==
    IF \E idx \in 0..(a.descriptor.len - 1) :
          ~InBounds(a.pointers[idx], 0, a.capacity * ColumnSize(a, idx))
    THEN [fault |-> "ub", drops |-> EmptyArr]
    ELSE [fault |-> "none",
          drops |-> [idx \in 0..(a.descriptor.len - 1) |->
                        [column |-> idx, offset |-> 0, count |-> a.capacity,
                         bytes |-> ReadBytes(a.pointers[idx], 0,
                                             a.capacity * ColumnSize(a, idx))]]]

\* drop_entities(): one call drop_handler(pointers[idx], entity_count) for
\* every column, recorded with the bytes it is handed; entity_count and the
\* memory stay as they are.
DropEntities(a) ==
    IF \E idx \in 0..(a.descriptor.len - 1) :
          ~InBounds(a.pointers[idx], 0, a.entity_count * ColumnSize(a, idx))
    THEN [fault |-> "ub", drops |-> EmptyArr]
    ELSE [fault |-> "none",
          drops |-> [idx \in 0..(a.descriptor.len - 1) |->
                        [column |-> idx, offset |-> 0, count |-> a.entity_count,
                         bytes |-> ReadBytes(a.pointers[idx], 0,
                                             a.entity_count * ColumnSize(a, idx))]]]

\* The component values a call disposes of: element k of the memory handed
\* to the drop handler of column c, and field i of a tuple moved out to the
\* caller. A component value is named by its entity value and its type.
DropEvents(drops) ==
    UNION {{<<c, k>> : k \in 0..(drops[c].count - 1)} : c \in DOMAIN drops}

DroppedComponent(drops, ev) ==
    LET d == drops[ev[1]]
        size == ArrLen(d.bytes) \div d.count
        first == d.bytes[ev[2] * size]
    IN  <<first[1], first[2]>>

YieldedComponent(data, i) == <<data[i][0][1], data[i][0][2]>>

DisposedTimes(drops, data, x) ==
    Cardinality({ev \in DropEvents(drops) : DroppedComponent(drops, ev) = x})
      + Cardinality({i \in DOMAIN data : YieldedComponent(data, i) = x})

\* The disposals so far, a count for every component value disposed of, and
\* the disposals after a call that dropped `drops` and moved out `data`.
NoDisposals == <<>>

Disposed(disp, drops, data) ==
    LET handed == {DroppedComponent(drops, ev) : ev \in DropEvents(drops)}
                    \cup {YieldedComponent(data, i) : i \in DOMAIN data}
    IN  [x \in (DOMAIN disp) \cup handed |->
            (IF x \in DOMAIN disp THEN disp[x] ELSE 0)
              + DisposedTimes(drops, data, x)]

\* A variant of swap_drop_unchecked that drops row `index` where it is and
\* moves no row.
SwapDropInPlace(a, index) ==
    IF DropOutOfBounds(a, index)
    THEN [a |-> a, fault |-> "ub", swapped |-> FALSE, drops |-> EmptyArr]
    ELSE [a |-> [a EXCEPT !.entity_count = @ - 1],
          fault |-> "none", swapped |-> index # a.entity_count - 1,
          drops |-> DropEntity(a, index)]

\* A variant of swap_drop_unchecked that swaps the rows and then drops row
\* `index`, which by then holds the former last entity.
SwapDropDroppingMoved(a, index) ==
    LET s == IF index = a.entity_count - 1 THEN [a |-> a, fault |-> "none"]
             ELSE SwapEntities(a, index, a.entity_count - 1)
    IN  IF s.fault # "none" \/ DropOutOfBounds(a, index)
        THEN [a |-> s.a, fault |-> "ub", swapped |-> FALSE, drops |-> EmptyArr]
        ELSE [a |-> [s.a EXCEPT !.entity_count = @ - 1],
              fault |-> "none", swapped |-> index # a.entity_count - 1,
              drops |-> DropEntity(s.a, index)]

\* swap_drop_unchecked(index) -> swapped
SwapDropUnchecked(a, index) ==
    IF index = a.entity_count - 1
    THEN IF DropOutOfBounds(a, index)
         THEN [a |-> a, fault |-> "ub", swapped |-> FALSE, drops |-> EmptyArr]
         ELSE [a |-> [a EXCEPT !.entity_count = @ - 1],
               fault |-> "none", swapped |-> FALSE, drops |-> DropEntity(a, index)]
    ELSE LET s == SwapEntities(a, index, a.entity_count - 1)
         IN  IF s.fault # "none"
             THEN [a |-> s.a, fault |-> s.fault, swapped |-> TRUE, drops |-> EmptyArr]
             ELSE [a |-> [s.a EXCEPT !.entity_count = @ - 1],
                   fault |-> "none", swapped |-> TRUE,
                   drops |-> DropEntity(s.a, a.entity_count - 1)]

\* offset_sorted_pointers_unchecked(index): every column pointer advanced by
\* index elements; a pointer is [column, offset], NO_POINTER a null slot.
NO_POINTER == [column |-> -1, offset |-> 0]

OffsetSortedPointersUnchecked(a, index) ==
    [c_idx \in ColumnIndices |->
        IF c_idx < a.descriptor.len
        THEN [column |-> c_idx, offset |-> ColumnSize(a, c_idx) * index]
        ELSE NO_POINTER]

\* G::read_from_sorted_pointers(pointers): field i of the tuple is read, with
\* the size of its own type, from slot unsorted_to_sorted(i).
ReadFieldFault(a, G, pointers, i) ==
    LET ptr == pointers[UnsortedToSorted(G, i)]
    IN  \/ ptr.column < 0
        \/ ~InBounds(a.pointers[ptr.column], ptr.offset, ComponentSize(G[i]))

ReadFromSortedPointers(a, G, pointers) ==
    IF \E i \in DOMAIN G : ReadFieldFault(a, G, pointers, i)
    THEN [fault |-> "ub", data |-> EmptyArr]
    ELSE [fault |-> "none",
          data |-> [i \in DOMAIN G |->
                      LET ptr == pointers[UnsortedToSorted(G, i)]
                      IN  ReadBytes(a.pointers[ptr.column], ptr.offset,
                                    ComponentSize(G[i]))]]

\* A variant of read_components_exact_unchecked that takes the row out of
\* the archetype: the values are read and entity_count is lowered.
ReadComponentsExactTaking(a, index, G) ==
    LET r == ReadFromSortedPointers(a, G, OffsetSortedPointersUnchecked(a, index))
    IN  [a |-> [a EXCEPT !.entity_count = @ - 1], fault |-> r.fault, data |-> r.data]

\* read_components_exact_unchecked(&self, index) -> G; a: the archetype
\* after the call.
ReadComponentsExactUnchecked(a, index, G) ==
    LET r == ReadFromSortedPointers(a, G, OffsetSortedPointersUnchecked(a, index))
    IN  [a |-> a, fault |-> r.fault, data |-> r.data]

\* A variant of swap_remove_unchecked that hands the removed row to the drop
\* handlers, as swap_drop_unchecked does, after reading it.
SwapRemoveDropping(a, index, G) ==
    LET r == ReadComponentsExactUnchecked(a, index, G)
        d == SwapDropUnchecked(a, index)
    IN  IF r.fault # "none"
        THEN [a |-> a, fault |-> r.fault, swapped |-> FALSE, data |-> r.data,
              drops |-> EmptyArr]
        ELSE [a |-> d.a, fault |-> d.fault, swapped |-> d.swapped, data |-> r.data,
              drops |-> d.drops]

\* swap_remove_unchecked(index) -> (G, swapped); drops: the calls of drop
\* handlers it makes, none.
SwapRemoveUnchecked(a, index, G) ==
    IF index = a.entity_count - 1
    THEN LET r == ReadComponentsExactUnchecked(a, index, G)
         IN  IF r.fault # "none"
             THEN [a |-> a, fault |-> r.fault, swapped |-> FALSE, data |-> r.data,
                   drops |-> EmptyArr]
             ELSE [a |-> [a EXCEPT !.entity_count = @ - 1],
                   fault |-> "none", swapped |-> FALSE, data |-> r.data,
                   drops |-> EmptyArr]
    ELSE LET s == SwapEntities(a, index, a.entity_count - 1)
             r == ReadComponentsExactUnchecked(s.a, a.entity_count - 1, G)
         IN  IF s.fault # "none"
             THEN [a |-> s.a, fault |-> s.fault, swapped |-> TRUE, data |-> EmptyArr,
                   drops |-> EmptyArr]
             ELSE IF r.fault # "none"
             THEN [a |-> s.a, fault |-> r.fault, swapped |-> TRUE, data |-> r.data,
                   drops |-> EmptyArr]
             ELSE [a |-> [s.a EXCEPT !.entity_count = @ - 1],
                   fault |-> "none", swapped |-> TRUE, data |-> r.data,
                   drops |-> EmptyArr]

\* copy_common_components_between_archetypes_unchecked: the inner loop, for
\* one source column, over the destination columns.
RECURSIVE CopyToDestination(_, _, _, _, _, _)
CopyToDestination(source, source_c_idx, source_index, destination, destination_c_idx, destination_index) ==
    IF destination_c_idx >= destination.descriptor.len
    THEN [a |-> destination, fault |-> "none"]
    ELSE IF source.descriptor.components[source_c_idx]
              # destination.descriptor.components[destination_c_idx]
    THEN CopyToDestination(source, source_c_idx, source_index, destination,
                           destination_c_idx + 1, destination_index)
    ELSE LET ssize == ColumnSize(source, source_c_idx)
             dsize == ColumnSize(destination, destination_c_idx)
         IN  IF \/ ~InBounds(source.pointers[source_c_idx],
                             ssize * source_index, ssize)
                \/ ~InBounds(destination.pointers[destination_c_idx],
                             dsize * destination_index, ssize)
             THEN [a |-> destination, fault |-> "ub"]
             ELSE CopyToDestination(
                    source, source_c_idx, source_index,
                    [destination EXCEPT !.pointers[destination_c_idx] =
                        WriteBytes(@, dsize * destination_index,
                                   ReadBytes(source.pointers[source_c_idx],
                                             ssize * source_index, ssize))],
                    destination_c_idx + 1, destination_index)

\* The outer loop, over the source columns.
RECURSIVE CopyFromSource(_, _, _, _, _)
CopyFromSource(source, source_c_idx, source_index, destination, destination_index) ==
    IF source_c_idx >= source.descriptor.len
    THEN [a |-> destination, fault |-> "none"]
    ELSE LET w == CopyToDestination(source, source_c_idx, source_index,
                                    destination, 0, destination_index)
         IN  IF w.fault # "none" THEN w
             ELSE CopyFromSource(source, source_c_idx + 1, source_index,
                                 w.a, destination_index)

CopyCommonComponents(source, source_index, destination, destination_index) ==
    CopyFromSource(source, 0, source_index, destination, destination_index)

\* get_fuzzy_pointers_unchecked: for the sorted component `index` of G, the
\* first column check_index in index..len-1 of the archetype with that id.
FuzzyMatches(a, G, index) ==
    {check_index \in index..(a.descriptor.len - 1) :
        a.descriptor.components[check_index] = GroupComponents(G)[index]}

\* A variant of get_fuzzy_pointers_unchecked that takes column `index` of the
\* archetype for the sorted component `index` of G, as the exact getters do.
GetFuzzyPointersByPosition(a, G) ==
    [index \in ColumnIndices |->
        IF index < GroupLen(G) /\ index < a.descriptor.len
        THEN [column |-> index, offset |-> 0]
        ELSE NO_POINTER]

GetFuzzyPointersUnchecked(a, G) ==
    [index \in ColumnIndices |->
        IF index < GroupLen(G) /\ FuzzyMatches(a, G, index) # {}
        THEN [column |-> CHOOSE c \in FuzzyMatches(a, G, index) :
                            \A x \in FuzzyMatches(a, G, index) : c <= x,
              offset |-> 0]
        ELSE NO_POINTER]

\* The pointers array of the archetype itself, as [column, offset] pointers.
OwnPointers(a) ==
    [c \in ColumnIndices |->
        IF a.pointers[c].null THEN NO_POINTER ELSE [column |-> c, offset |-> 0]]

\* G::slice_unchecked(sorted_pointers, len): element i of the tuple is the
\* slice based at sorted_pointers[unsorted_to_sorted(i)], of length len.
SliceUnchecked(G, sorted_pointers, len) ==
    [i \in DOMAIN G |->
        [base |-> sorted_pointers[UnsortedToSorted(G, i)], len |-> len]]

\* get_fuzzy_slices_unchecked::<G>()
GetFuzzySlicesUnchecked(a, G) ==
    SliceUnchecked(G, GetFuzzyPointersUnchecked(a, G), a.entity_count)

\* get_slices_unchecked_exact::<G>()
GetSlicesUncheckedExact(a, G) ==
    SliceUnchecked(G, OwnPointers(a), a.entity_count)

(***************************************************************************)
(* ArchetypeRegistry: archetypes (a Vec) and sorted_mappings, an array of  *)
(* MAX_COMPONENTS_PER_ENTITY vectors of SortedArchetypeKey {id,            *)
(* archetype_index}, the vector at index n holding the archetypes of n     *)
(* components sorted by id.  A registry value is                           *)
(* [archetypes, sorted_mappings].                                          *)
(***************************************************************************)
\* ArchetypeRegistry::default()
DefaultRegistry ==
    [archetypes |-> EmptyArr,
     sorted_mappings |-> [n \in 0..(MAX_COMPONENTS_PER_ENTITY - 1) |-> EmptyArr]]

\* `n as u16`. The u16 of the model is scaled as MAX_ARCHETYPE_COUNT is: its
\* largest value is MAX_ARCHETYPE_COUNT, as u16::MAX = 65535 is in the crate.
U16_MAX == MAX_ARCHETYPE_COUNT

AsU16(n) == n % (U16_MAX + 1)

\* slice::binary_search_by_key(&id, |e| e.id): Ok(index) or Err(insertion).
RECURSIVE BinarySearch(_, _, _, _)
BinarySearch(keys, id, left, right) ==
    IF left >= right THEN [found |-> FALSE, index |-> left]
    ELSE LET mid == left + ((right - left) \div 2)
         IN  IF IdLess(keys[mid].id, id) THEN BinarySearch(keys, id, mid + 1, right)
             ELSE IF IdLess(id, keys[mid].id) THEN BinarySearch(keys, id, left, mid)
             ELSE [found |-> TRUE, index |-> mid]

BinarySearchByKey(keys, id) == BinarySearch(keys, id, 0, ArrLen(keys))

\* The guard without its validity test.
RejectsOverlongOnly(d) == d.len > MAX_COMPONENTS_PER_ENTITY

\* The early return of find_archetype, find_archetype_mut and
\* find_or_create_archetype.
RejectsDescriptor(d) == d.len > MAX_COMPONENTS_PER_ENTITY \/ ~IsValid(d)

\* sorted_mappings[len]: an index into an array of
\* MAX_COMPONENTS_PER_ENTITY elements, bounds-checked.
BucketInBounds(reg, len) == len \in DOMAIN reg.sorted_mappings

\* find_archetype / find_archetype_mut -> Option<&Archetype>, here the index.
FindArchetype(reg, d) ==
    IF RejectsDescriptor(d) THEN [fault |-> "none", some |-> FALSE, index |-> 0]
    ELSE IF ~BucketInBounds(reg, d.len)
    THEN [fault |-> "panic", some |-> FALSE, index |-> 0]
    ELSE LET r == BinarySearchByKey(reg.sorted_mappings[d.len], d.archetype_id)
         IN  IF r.found
             THEN [fault |-> "none", some |-> TRUE,
                   index |-> reg.sorted_mappings[d.len][r.index].archetype_index]
             ELSE [fault |-> "none", some |-> FALSE, index |-> 0]

\* A variant of the guard that lets one archetype more be created.
RegistryFullAbove(reg) == ArrLen(reg.archetypes) > MAX_ARCHETYPE_COUNT

\* The guard of find_or_create_archetype against too many archetypes.
RegistryFull(reg) == ArrLen(reg.archetypes) >= MAX_ARCHETYPE_COUNT

\* A variant of find_or_create_archetype that keeps the archetypes of n
\* components in the bucket at index n - 1.
FindOrCreateArchetypeBucketBelow(reg, d) ==
    IF RejectsDescriptor(d)
    THEN [reg |-> reg, fault |-> "none", some |-> FALSE, index |-> 0]
    ELSE LET r == BinarySearchByKey(reg.sorted_mappings[d.len - 1], d.archetype_id)
         IN  IF r.found
             THEN [reg |-> reg, fault |-> "none", some |-> TRUE,
                   index |-> reg.sorted_mappings[d.len - 1][r.index].archetype_index]
             ELSE IF RegistryFull(reg)
             THEN [reg |-> reg, fault |-> "none", some |-> FALSE, index |-> 0]
             ELSE LET key == [id |-> d.archetype_id,
                              archetype_index |-> AsU16(ArrLen(reg.archetypes))]
                      pushed == ArrPush(reg.archetypes,
                                        WithCapacity(d, DEFAULT_ARCHETYPE_ALLOCATION_SIZE))
                  IN  [reg |-> [archetypes |-> pushed,
                                sorted_mappings |->
                                    [reg.sorted_mappings EXCEPT ![d.len - 1] =
                                        ArrInsert(@, r.index, key)]],
                       fault |-> "none", some |-> TRUE,
                       index |-> AsU16(ArrLen(pushed)) - 1]

\* A variant of find_or_create_archetype that puts a new archetype at the
\* front of the archetypes.
FindOrCreateArchetypeInsertingFirst(reg, d) ==
    IF RejectsDescriptor(d)
    THEN [reg |-> reg, fault |-> "none", some |-> FALSE, index |-> 0]
    ELSE IF ~BucketInBounds(reg, d.len)
    THEN [reg |-> reg, fault |-> "panic", some |-> FALSE, index |-> 0]
    ELSE LET r == BinarySearchByKey(reg.sorted_mappings[d.len], d.archetype_id)
         IN  IF r.found
             THEN [reg |-> reg, fault |-> "none", some |-> TRUE,
                   index |-> reg.sorted_mappings[d.len][r.index].archetype_index]
             ELSE IF RegistryFull(reg)
             THEN [reg |-> reg, fault |-> "none", some |-> FALSE, index |-> 0]
             ELSE LET key == [id |-> d.archetype_id, archetype_index |-> 0]
                      pushed == ArrInsert(reg.archetypes, 0,
                                          WithCapacity(d, DEFAULT_ARCHETYPE_ALLOCATION_SIZE))
                  IN  [reg |-> [archetypes |-> pushed,
                                sorted_mappings |->
                                    [reg.sorted_mappings EXCEPT ![d.len] =
                                        ArrInsert(@, r.index, key)]],
                       fault |-> "none", some |-> TRUE, index |-> 0]

\* find_or_create_archetype -> Option<(u16, &mut Archetype)>
FindOrCreateArchetype(reg, d) ==
    IF RejectsDescriptor(d)
    THEN [reg |-> reg, fault |-> "none", some |-> FALSE, index |-> 0]
    ELSE IF ~BucketInBounds(reg, d.len)
    THEN [reg |-> reg, fault |-> "panic", some |-> FALSE, index |-> 0]
    ELSE LET r == BinarySearchByKey(reg.sorted_mappings[d.len], d.archetype_id)
         IN  IF r.found
             THEN [reg |-> reg, fault |-> "none", some |-> TRUE,
                   index |-> reg.sorted_mappings[d.len][r.index].archetype_index]
             ELSE IF RegistryFull(reg)
             THEN [reg |-> reg, fault |-> "none", some |-> FALSE, index |-> 0]
             ELSE LET key == [id |-> d.archetype_id,
                              archetype_index |-> AsU16(ArrLen(reg.archetypes))]
                      pushed == ArrPush(reg.archetypes,
                                        WithCapacity(d, DEFAULT_ARCHETYPE_ALLOCATION_SIZE))
                  IN  [reg |-> [archetypes |-> pushed,
                                sorted_mappings |->
                                    [reg.sorted_mappings EXCEPT ![d.len] =
                                        ArrInsert(@, r.index, key)]],
                       fault |-> "none", some |-> TRUE,
                       index |-> AsU16(ArrLen(pushed)) - 1]

\* The range check of find_or_create_archetype_adding_component.
SourceOutOfRange(reg, source_archetype_index) ==
    source_archetype_index > ArrLen(reg.archetypes)

\* A variant of find_or_create_archetype_adding_component that looks up the
\* source's own descriptor instead of the descriptor with the component added.
FindOrCreateArchetypeOfSource(reg, source_archetype_index, t) ==
    IF SourceOutOfRange(reg, source_archetype_index)
    THEN [reg |-> reg, fault |-> "none", some |-> FALSE,
          source |-> 0, index |-> 0]
    ELSE IF source_archetype_index \notin DOMAIN reg.archetypes
    THEN [reg |-> reg, fault |-> "ub", some |-> FALSE, source |-> 0, index |-> 0]
    ELSE LET new_archetype_descriptor ==
                 AddComponent(reg.archetypes[source_archetype_index].descriptor, t)
             r == FindOrCreateArchetype(
                      reg, reg.archetypes[source_archetype_index].descriptor)
         IN  IF ~IsValid(new_archetype_descriptor)
             THEN [reg |-> reg, fault |-> "none", some |-> FALSE,
                   source |-> 0, index |-> 0]
             ELSE [reg |-> r.reg, fault |-> r.fault, some |-> r.some,
                   source |-> source_archetype_index, index |-> r.index]

\* find_or_create_archetype_adding_component
\*   -> Option<(&mut Archetype, u16, &mut Archetype)>
\* get_unchecked_mut(source_archetype_index) past the end of the Vec and the
\* read of the descriptor through it are undefined.
FindOrCreateArchetypeAddingComponent(reg, source_archetype_index, t) ==
    IF SourceOutOfRange(reg, source_archetype_index)
    THEN [reg |-> reg, fault |-> "none", some |-> FALSE,
          source |-> 0, index |-> 0]
    ELSE IF source_archetype_index \notin DOMAIN reg.archetypes
    THEN [reg |-> reg, fault |-> "ub", some |-> FALSE, source |-> 0, index |-> 0]
    ELSE LET new_archetype_descriptor ==
                 AddComponent(reg.archetypes[source_archetype_index].descriptor, t)
             r == FindOrCreateArchetype(reg, new_archetype_descriptor)
         IN  IF ~IsValid(new_archetype_descriptor)
             THEN [reg |-> reg, fault |-> "none", some |-> FALSE,
                   source |-> 0, index |-> 0]
             ELSE [reg |-> r.reg, fault |-> r.fault, some |-> r.some,
                   source |-> source_archetype_index, index |-> r.index]

\* iter_components_matching::<G>(): the buckets from |G| upwards, each in its
\* own order, filtered by is_superset_of; the archetype indices yielded.
RECURSIVE IterBucket(_, _, _, _)
IterBucket(reg, G, n, k) ==
    IF k >= ArrLen(reg.sorted_mappings[n]) THEN <<>>
    ELSE LET index == reg.sorted_mappings[n][k].archetype_index
         IN  (IF IsSupersetOf(reg.archetypes[index].descriptor, G)
              THEN <<index>> ELSE <<>>)
             \o IterBucket(reg, G, n, k + 1)

RECURSIVE IterBuckets(_, _, _)
IterBuckets(reg, G, n) ==
    IF n >= ArrLen(reg.sorted_mappings) THEN <<>>
    ELSE IterBucket(reg, G, n, 0) \o IterBuckets(reg, G, n + 1)

IterComponentsMatching(reg, G) == IterBuckets(reg, G, GroupLen(G))

(***************************************************************************)
(* The buffer of the archetypes Vec, [ptr, cap]: ptr names the allocation, *)
(* cap is its capacity in archetypes.  Vec::push on a full Vec allocates a *)
(* buffer of twice the capacity; the allocator grows the allocation in     *)
(* place or moves it (moved), and a moved buffer has a new ptr.            *)
(***************************************************************************)
\* Vec::with_capacity(128)
DefaultRaw == [ptr |-> 0, cap |-> ARCHETYPES_CAPACITY]

\* self.archetypes.push(archetype) when len archetypes are held.
VecGrows(raw, len) == len = raw.cap

VecPush(raw, len, moved) ==
    IF VecGrows(raw, len)
    THEN [ptr |-> IF moved THEN raw.ptr + 1 ELSE raw.ptr, cap |-> 2 * raw.cap]
    ELSE raw

\* *mut Archetype: the buffer and the index it points into.
PointerInto(raw, index) == [ptr |-> raw.ptr, index |-> index]

\* A pointer taken from an earlier buffer dangles once the buffer has moved.
Dangling(pointer, raw) == pointer.ptr # raw.ptr

(***************************************************************************)
(* State.                                                                  *)
(***************************************************************************)
VARIABLES
    archetypes,       \* ArchetypeRegistry.archetypes
    sorted_mappings,  \* ArchetypeRegistry.sorted_mappings
    fault,            \* "none", or how the process ended: "panic" | "ub"
    archetypes_raw,   \* the buffer of the archetypes Vec: [ptr, cap]
    pushed,           \* the number of entity values pushed so far
    disposals,        \* how often each component value was handed to a drop
                      \* handler or moved out to the caller
    last              \* the last call: its name, arguments, results and the
                      \* registry before it (pre)

vars == <<archetypes, sorted_mappings, archetypes_raw, fault, pushed,
         disposals, last>>

Registry == [archetypes |-> archetypes, sorted_mappings |-> sorted_mappings]

\* The buffer after a call that took the registry from reg to post: a push
\* happened exactly when post holds one archetype more.
Pushed(reg, post) == ArrLen(post.archetypes) = ArrLen(reg.archetypes) + 1

RawAfter(reg, post, moved) ==
    IF Pushed(reg, post)
    THEN VecPush(archetypes_raw, ArrLen(reg.archetypes), moved)
    ELSE archetypes_raw

\* Whether a growing allocation moves is the allocator's choice.
Moves(reg, post) ==
    IF Pushed(reg, post) /\ VecGrows(archetypes_raw, ArrLen(reg.archetypes))
    THEN BOOLEAN ELSE {FALSE}

(***************************************************************************)
(* Inputs.                                                                 *)
(***************************************************************************)
\* Descriptors asked of the registry: every non-empty set of small types,
\* the sets of MAX_COMPONENTS_PER_ENTITY - 1 and MAX_COMPONENTS_PER_ENTITY
\* types, and the invalid descriptor.
RequestSets ==
    ((SUBSET SmallTypes) \ {{}})
      \cup {ComponentTypeIds \ {t} : t \in SmallTypes}
      \cup {ComponentTypeIds}

Requests ==
    {DescriptorOfSet(S) : S \in RequestSets}
      \cup {INVALID_DESCRIPTOR, OVERLONG_DESCRIPTOR}

\* Groups: every declaration order of every non-empty set of small types.
IsGroup(G) == \A i, j \in DOMAIN G : i # j => G[i] # G[j]

Groups ==
    UNION {{G \in [0..(n - 1) -> SmallTypes] : IsGroup(G)} : n \in 1..NumSmallTypes}

\* The groups whose descriptor is the descriptor of archetype a.
ExactGroups(a) == {G \in Groups : ArrRange(G) = IdSet(a.descriptor)}

Rows(a) == 0..(a.entity_count - 1)

(***************************************************************************)
(* Init: ArchetypeRegistry::default().                                     *)
(***************************************************************************)
Init ==
    /\ archetypes = DefaultRegistry.archetypes
    /\ sorted_mappings = DefaultRegistry.sorted_mappings
    /\ archetypes_raw = DefaultRaw
    /\ fault = "none"
    /\ pushed = 0
    /\ disposals = NoDisposals
    /\ last = [op |-> "default"]

Running == fault = "none"

(***************************************************************************)
(* Registry calls.                                                         *)
(***************************************************************************)
FindArchetypeCall ==
    /\ Running
    /\ \E d \in Requests, op \in {"find_archetype", "find_archetype_mut"} :
        LET r == FindArchetype(Registry, d)
        IN  /\ fault' = r.fault
            /\ last' = [op |-> op, descriptor |-> d, some |-> r.some,
                        index |-> r.index, pre |-> Registry]
    /\ UNCHANGED <<archetypes, sorted_mappings, archetypes_raw, pushed, disposals>>

FindOrCreateArchetypeCall ==
    /\ Running
    /\ \E d \in Requests :
        LET r == FindOrCreateArchetype(Registry, d)
        IN  /\ archetypes' = r.reg.archetypes
            /\ sorted_mappings' = r.reg.sorted_mappings
            /\ \E moved \in Moves(Registry, r.reg) :
                   archetypes_raw' = RawAfter(Registry, r.reg, moved)
            /\ fault' = r.fault
            /\ last' = [op |-> "find_or_create_archetype", descriptor |-> d,
                        some |-> r.some, index |-> r.index, pre |-> Registry]
    /\ UNCHANGED <<pushed, disposals>>

FindOrCreateArchetypeAddingComponentCall ==
    /\ Running
    /\ \E source_archetype_index \in 0..(ArrLen(archetypes) + 1),
          t \in SmallTypes :
        LET r == FindOrCreateArchetypeAddingComponent(
                     Registry, source_archetype_index, t)
            source_archetype == PointerInto(archetypes_raw, source_archetype_index)
        IN  /\ archetypes' = r.reg.archetypes
            /\ sorted_mappings' = r.reg.sorted_mappings
            /\ \E moved \in Moves(Registry, r.reg) :
                   /\ archetypes_raw' = RawAfter(Registry, r.reg, moved)
                   /\ fault' = IF r.fault = "none" /\ r.some
                                  /\ Dangling(source_archetype, archetypes_raw')
                               THEN "ub" ELSE r.fault
            /\ last' = [op |-> "find_or_create_archetype_adding_component",
                        source_archetype_index |-> source_archetype_index,
                        component |-> t, some |-> r.some, source |-> r.source,
                        source_archetype |-> source_archetype,
                        index |-> r.index, pre |-> Registry]
    /\ UNCHANGED <<pushed, disposals>>

IterComponentsMatchingCall ==
    /\ Running
    /\ \E G \in Groups :
        last' = [op |-> "iter_components_matching", group |-> G,
                 yielded |-> IterComponentsMatching(Registry, G), pre |-> Registry]
    /\ UNCHANGED <<archetypes, sorted_mappings, archetypes_raw, fault, pushed, disposals>>

(***************************************************************************)
(* Archetype calls, on the archetype at index `ai` of the registry, within *)
(* the documented preconditions of each (the caller's group is the         *)
(* archetype's, rows are below entity_count).                              *)
(***************************************************************************)
SetArchetype(ai, a) == archetypes' = [archetypes EXCEPT ![ai] = a]

\* The metadata (the handle) in slot r of the metadata array.
MetadataAt(a, r) == a.entity_metadata.mem[r]

\* The entity value pushed next carries its own metadata (its handle).
PushEntityUpTo(bound) ==
    /\ Running
    /\ pushed < bound
    /\ \E ai \in DOMAIN archetypes :
        \E G \in ExactGroups(archetypes[ai]) :
            \E resized \in PushReallocOutcomes(archetypes[ai]) :
            LET e == pushed + 1
                r == PushEntityUnchecked(archetypes[ai], Metadata(e), G,
                                         GroupValue(e, G))
            IN  /\ IF resized THEN SetArchetype(ai, r.a) /\ fault' = r.fault
                   ELSE UNCHANGED archetypes /\ fault' = "ub"
                /\ last' = [op |-> "push_entity", ai |-> ai, group |-> G,
                            entity |-> e, index |-> r.index, pre |-> Registry]
    /\ pushed' = pushed + 1
    /\ UNCHANGED <<sorted_mappings, archetypes_raw, disposals>>

PushEntityCall == PushEntityUpTo(MaxPushes)

ReadComponentsExactCall ==
    /\ Running
    /\ \E ai \in DOMAIN archetypes :
        \E index \in Rows(archetypes[ai]), G \in ExactGroups(archetypes[ai]) :
            LET r == ReadComponentsExactUnchecked(archetypes[ai], index, G)
            IN  /\ SetArchetype(ai, r.a)
                /\ fault' = r.fault
                /\ last' = [op |-> "read_components_exact", ai |-> ai,
                            row |-> index, group |-> G, data |-> r.data,
                            pre |-> Registry]
    /\ UNCHANGED <<sorted_mappings, archetypes_raw, pushed, disposals>>

SwapEntitiesCall ==
    /\ Running
    /\ \E ai \in DOMAIN archetypes :
        \E first, second \in Rows(archetypes[ai]) :
            /\ first # second
            /\ LET r == SwapEntities(archetypes[ai], first, second)
               IN  /\ SetArchetype(ai, r.a)
                   /\ fault' = r.fault
                   /\ last' = [op |-> "swap_entities", ai |-> ai, first |-> first,
                               second |-> second, pre |-> Registry]
    /\ UNCHANGED <<sorted_mappings, archetypes_raw, pushed, disposals>>

SwapDropCall ==
    /\ Running
    /\ \E ai \in DOMAIN archetypes :
        \E index \in Rows(archetypes[ai]) :
            LET r == SwapDropUnchecked(archetypes[ai], index)
            IN  /\ SetArchetype(ai, r.a)
                /\ fault' = r.fault
                /\ disposals' = Disposed(disposals, r.drops, EmptyArr)
                /\ last' = [op |-> "swap_drop", ai |-> ai, row |-> index,
                            swapped |-> r.swapped, drops |-> r.drops,
                            pre |-> Registry]
    /\ UNCHANGED <<sorted_mappings, archetypes_raw, pushed>>

SwapRemoveCall ==
    /\ Running
    /\ \E ai \in DOMAIN archetypes :
        \E index \in Rows(archetypes[ai]), G \in ExactGroups(archetypes[ai]) :
            LET r == SwapRemoveUnchecked(archetypes[ai], index, G)
            IN  /\ SetArchetype(ai, r.a)
                /\ fault' = r.fault
                /\ disposals' = Disposed(disposals, r.drops,
                                         IF r.fault = "none" THEN r.data
                                         ELSE EmptyArr)
                /\ last' = [op |-> "swap_remove", ai |-> ai, row |-> index,
                            group |-> G, swapped |-> r.swapped, data |-> r.data,
                            drops |-> r.drops, pre |-> Registry]
    /\ UNCHANGED <<sorted_mappings, archetypes_raw, pushed>>

DropEntitiesCall ==
    /\ Running
    /\ \E ai \in DOMAIN archetypes :
        LET r == DropEntities(archetypes[ai])
        IN  /\ fault' = r.fault
            /\ disposals' = Disposed(disposals, r.drops, EmptyArr)
            /\ last' = [op |-> "drop_entities", ai |-> ai, drops |-> r.drops,
                        pre |-> Registry]
    /\ UNCHANGED <<archetypes, sorted_mappings, archetypes_raw, pushed>>

\* Groups whose types all are columns of the archetype.
SubGroups(a) == {G \in Groups : ArrRange(G) \subseteq IdSet(a.descriptor)}

GetFuzzySlicesCall ==
    /\ Running
    /\ \E ai \in DOMAIN archetypes :
        \E G \in SubGroups(archetypes[ai]) :
            last' = [op |-> "get_fuzzy_slices", ai |-> ai, group |-> G,
                     slices |-> GetFuzzySlicesUnchecked(archetypes[ai], G)]
    /\ UNCHANGED <<archetypes, sorted_mappings, archetypes_raw, fault, pushed, disposals>>

ResizeDeltas == ((-MaxResizeDelta)..MaxResizeDelta) \ {0}

ResizeCapacityCall ==
    /\ Running
    /\ \E ai \in DOMAIN archetypes, change_in_entity_count \in ResizeDeltas :
        \E resized \in ReallocOutcomes(archetypes[ai], change_in_entity_count) :
        /\ IF resized
           THEN /\ SetArchetype(ai, ResizeCapacity(archetypes[ai],
                                                   change_in_entity_count))
                /\ UNCHANGED fault
           ELSE UNCHANGED archetypes /\ fault' = "ub"
        /\ last' = [op |-> "resize_capacity", ai |-> ai,
                    change_in_entity_count |-> change_in_entity_count,
                    pre |-> Registry]
    /\ UNCHANGED <<sorted_mappings, archetypes_raw, pushed, disposals>>

(***************************************************************************)
(* Spec: the registry calls on a registry built by                         *)
(* ArchetypeRegistry::default().                                           *)
(***************************************************************************)
Next ==
    \/ FindArchetypeCall
    \/ FindOrCreateArchetypeCall
    \/ FindOrCreateArchetypeAddingComponentCall
    \/ IterComponentsMatchingCall

Spec == Init /\ [][Next]_vars

(***************************************************************************)
(* SpecArchetype: the archetype calls on one archetype, as created by      *)
(* find_or_create_archetype in a fresh registry for a descriptor of small  *)
(* types.                                                                  *)
(***************************************************************************)
InitArchetype ==
    /\ \E S \in (SUBSET SmallTypes) \ {{}} :
        LET r == FindOrCreateArchetype(DefaultRegistry, DescriptorOfSet(S))
        IN  /\ archetypes = r.reg.archetypes
            /\ sorted_mappings = r.reg.sorted_mappings
            /\ last = [op |-> "find_or_create_archetype",
                       descriptor |-> DescriptorOfSet(S), some |-> r.some,
                       index |-> r.index, pre |-> DefaultRegistry]
    /\ archetypes_raw = DefaultRaw
    /\ fault = "none"
    /\ pushed = 0
    /\ disposals = NoDisposals

NextArchetype ==
    \/ PushEntityCall
    \/ ReadComponentsExactCall
    \/ SwapEntitiesCall
    \/ SwapDropCall
    \/ SwapRemoveCall
    \/ GetFuzzySlicesCall

SpecArchetype == InitArchetype /\ [][NextArchetype]_vars

(***************************************************************************)
(* SpecResize: the archetype calls and direct calls of resize_capacity, on *)
(* the archetype of the smallest type.                                     *)
(***************************************************************************)
ResizeTypes == {t \in SmallTypes : t <= 1}

InitResize ==
    /\ LET r == FindOrCreateArchetype(DefaultRegistry, DescriptorOfSet(ResizeTypes))
       IN  /\ archetypes = r.reg.archetypes
           /\ sorted_mappings = r.reg.sorted_mappings
           /\ last = [op |-> "find_or_create_archetype",
                      descriptor |-> DescriptorOfSet(ResizeTypes), some |-> r.some,
                      index |-> r.index, pre |-> DefaultRegistry]
    /\ archetypes_raw = DefaultRaw
    /\ fault = "none"
    /\ pushed = 0
    /\ disposals = NoDisposals

NextResize ==
    \/ PushEntityCall
    \/ ReadComponentsExactCall
    \/ SwapEntitiesCall
    \/ SwapDropCall
    \/ SwapRemoveCall
    \/ ResizeCapacityCall

SpecResize == InitResize /\ [][NextResize]_vars

(***************************************************************************)
(* SpecTransition: the steps of adding a component to an entity.  After    *)
(* find_or_create_archetype_adding_component has returned the source and   *)
(* the destination, the common components of a source row are copied to a  *)
(* destination row, and the added component is written to that row with    *)
(* write_entity_unchecked.                                                 *)
(***************************************************************************)
\* The debug_assert_eq! of write_entity_unchecked and push_entity_unchecked:
\* the group's archetype id against the archetype's.
DebugAssertFails(a, G) ==
    GroupDescriptor(G).archetype_id # a.descriptor.archetype_id

CopyCommonComponentsCall ==
    /\ Running
    /\ last.op = "find_or_create_archetype_adding_component"
    /\ last.some
    /\ \E source_index \in Rows(archetypes[last.source]),
          destination_index \in 0..(archetypes[last.index].capacity - 1) :
        LET r == CopyCommonComponents(archetypes[last.source], source_index,
                                      archetypes[last.index], destination_index)
        IN  /\ SetArchetype(last.index, r.a)
            /\ fault' = r.fault
            /\ last' = [op |-> "copy_common_components",
                        source |-> last.source, source_index |-> source_index,
                        destination |-> last.index,
                        destination_index |-> destination_index,
                        component |-> last.component, pre |-> Registry]
    /\ UNCHANGED <<sorted_mappings, archetypes_raw, pushed, disposals>>

\* write_entity_unchecked::<(C,)>(destination_index, metadata, (c,)) on the
\* destination, for the added component C of the entity that is moving.
\* A build with debug assertions stops at the debug_assert_eq!.
WriteEntityCall ==
    /\ Running
    /\ last.op = "copy_common_components"
    /\ \E debug_assertions \in BOOLEAN :
        LET G == [i \in {0} |-> last.component]
            e == MetadataAt(archetypes[last.source], last.source_index)
            r == WriteEntityUnchecked(archetypes[last.destination],
                                      last.destination_index, Metadata(e), G,
                                      GroupValue(e, G))
            asserted == debug_assertions
                          /\ DebugAssertFails(archetypes[last.destination], G)
        IN  /\ IF asserted
               THEN UNCHANGED archetypes /\ fault' = "panic"
               ELSE SetArchetype(last.destination, r.a) /\ fault' = r.fault
            /\ last' = [op |-> "write_entity", ai |-> last.destination,
                        row |-> last.destination_index, group |-> G,
                        entity |-> e, component |-> last.component,
                        source |-> last.source,
                        source_index |-> last.source_index,
                        debug_assertions |-> debug_assertions, pre |-> Registry]
    /\ UNCHANGED <<sorted_mappings, archetypes_raw, pushed, disposals>>

\* The entities of the source are pushed before any destination exists.
PushSourceCall ==
    /\ ArrLen(archetypes) = 1
    /\ pushed < MaxSourceRows
    /\ PushEntityCall

NextTransition ==
    \/ PushSourceCall
    \/ FindOrCreateArchetypeAddingComponentCall
    \/ CopyCommonComponentsCall
    \/ WriteEntityCall

SpecTransition == InitArchetype /\ [][NextTransition]_vars

(***************************************************************************)
(* SpecWrite: one archetype that is pushed to, read, and written in place  *)
(* with write_entity_unchecked at any row of its allocation, the group     *)
(* being one of the archetype's own types in any declaration order.        *)
(***************************************************************************)
AllocatedRows(a) == 0..(a.capacity - 1)

WriteEntityInPlaceCall ==
    /\ Running
    /\ pushed < MaxPushes
    /\ \E ai \in DOMAIN archetypes :
        \E index \in AllocatedRows(archetypes[ai]),
           G \in ExactGroups(archetypes[ai]) :
            LET e == pushed + 1
                r == WriteEntityUnchecked(archetypes[ai], index, Metadata(e), G,
                                          GroupValue(e, G))
            IN  /\ SetArchetype(ai, r.a)
                /\ fault' = r.fault
                /\ last' = [op |-> "write_entity", ai |-> ai, row |-> index,
                            group |-> G, entity |-> e, drops |-> r.drops,
                            pre |-> Registry]
    /\ pushed' = pushed + 1
    /\ UNCHANGED <<sorted_mappings, archetypes_raw, disposals>>

NextWrite ==
    \/ PushEntityCall
    \/ ReadComponentsExactCall
    \/ WriteEntityInPlaceCall

SpecWrite == InitArchetype /\ [][NextWrite]_vars

(***************************************************************************)
(* SpecGrowth: one archetype, as created by find_or_create_archetype, that *)
(* is only pushed to and read, up to the push that takes its capacity to   *)
(* MAX_ENTITIES_PER_ARCHETYPE.                                             *)
(***************************************************************************)
PushGrowingCall == PushEntityUpTo(MaxGrowthPushes)

NextGrowth ==
    \/ PushGrowingCall
    \/ ReadComponentsExactCall

SpecGrowth == InitArchetype /\ [][NextGrowth]_vars

(***************************************************************************)
(* SpecDisposal: the life of one archetype: push_entity, swap_entities,    *)
(* swap_drop and swap_remove in any order, then one drop_entities, after   *)
(* which the archetype is not used again.                                  *)
(***************************************************************************)
TornDown == last.op = "drop_entities"

PushLiveCall == ~TornDown /\ PushEntityCall

SwapEntitiesLiveCall == ~TornDown /\ SwapEntitiesCall

SwapDropLiveCall == ~TornDown /\ SwapDropCall

SwapRemoveLiveCall == ~TornDown /\ SwapRemoveCall

TeardownCall == ~TornDown /\ DropEntitiesCall

NextDisposal ==
    \/ PushLiveCall
    \/ SwapEntitiesLiveCall
    \/ SwapDropLiveCall
    \/ SwapRemoveLiveCall
    \/ TeardownCall

SpecDisposal == InitArchetype /\ [][NextDisposal]_vars

(***************************************************************************)
(* The registry once its archetypes Vec is full: archetypes.len() has      *)
(* reached the capacity of the buffer (128 archetypes in the code, one     *)
(* archetype of small types here), and the next archetype created makes    *)
(* the Vec grow.                                                           *)
(***************************************************************************)
InitHandles ==
    /\ \E S \in (SUBSET SmallTypes) \ {{}} :
        LET r == FindOrCreateArchetype(DefaultRegistry, DescriptorOfSet(S))
        IN  /\ archetypes = r.reg.archetypes
            /\ sorted_mappings = r.reg.sorted_mappings
            /\ archetypes_raw = [ptr |-> 0, cap |-> ArrLen(r.reg.archetypes)]
            /\ last = [op |-> "find_or_create_archetype",
                       descriptor |-> DescriptorOfSet(S), some |-> r.some,
                       index |-> r.index, pre |-> DefaultRegistry]
    /\ fault = "none"
    /\ pushed = 0
    /\ disposals = NoDisposals

NextHandles ==
    \/ FindArchetypeCall
    \/ FindOrCreateArchetypeCall
    \/ FindOrCreateArchetypeAddingComponentCall

SpecHandles == InitHandles /\ [][NextHandles]_vars

(***************************************************************************)
(* SpecGroup: the functions of ComponentGroup, called on every group of    *)
(* the small types in every declaration order.  The address of field i of  *)
(* the group value is i; ptrs is an array of null pointers or one that     *)
(* holds what an earlier use left in it.                                   *)
(***************************************************************************)
\* What an earlier use left in slot j.
StalePointer(j) == -(j + 2)

PointerArrays == {NullPointers, [j \in ColumnIndices |-> StalePointer(j)]}

\* The base pointers of columns 0..MAX_COMPONENTS_PER_ENTITY - 1.
ColumnBases == [j \in ColumnIndices |-> [column |-> j, offset |-> 0]]

AsSortedPointersCall ==
    /\ Running
    /\ \E G \in Groups, ptrs \in PointerArrays :
        last' = [op |-> "as_sorted_pointers", group |-> G, before |-> ptrs,
                 ptrs |-> AsSortedPointersInto(G, ptrs)]
    /\ UNCHANGED <<archetypes, sorted_mappings, archetypes_raw, fault, pushed, disposals>>

\* pointers_as_ref_tuple and pointers_as_mut_ref_tuple of a group G on the
\* array the last as_sorted_pointers filled, G being any declaration order
\* of the types of that group value.
PointersAsRefTupleCall ==
    /\ Running
    /\ last.op = "as_sorted_pointers"
    /\ \E G \in Groups,
          op \in {"pointers_as_ref_tuple", "pointers_as_mut_ref_tuple"} :
        /\ ArrRange(G) = ArrRange(last.group)
        /\ last' = [op |-> op, group |-> G, source |-> last.group,
                    sorted_pointers |-> last.ptrs,
                    tuple |-> PointersAsRefTuple(G, last.ptrs)]
    /\ UNCHANGED <<archetypes, sorted_mappings, archetypes_raw, fault, pushed, disposals>>

SliceUncheckedCall ==
    /\ Running
    /\ \E G \in Groups, len \in 0..MaxSliceLen,
          op \in {"slice_unchecked", "slice_unchecked_mut"} :
        last' = [op |-> op, group |-> G, sorted_pointers |-> ColumnBases,
                 len |-> len, slices |-> SliceUnchecked(G, ColumnBases, len)]
    /\ UNCHANGED <<archetypes, sorted_mappings, archetypes_raw, fault, pushed, disposals>>

NextGroup ==
    \/ AsSortedPointersCall
    \/ PointersAsRefTupleCall
    \/ SliceUncheckedCall

SpecGroup == Init /\ [][NextGroup]_vars

(***************************************************************************)
(* Reading the columns of an archetype.                                    *)
(***************************************************************************)
\* The bytes of row r in column c.
Cell(a, c, r) == ReadBytes(a.pointers[c], r * ColumnSize(a, c), ColumnSize(a, c))

\* Row r of the allocation: its metadata slot and its cell in every column.
Row(a, r) ==
    [metadata |-> a.entity_metadata.mem[r],
     cells |-> [c \in 0..(a.descriptor.len - 1) |-> Cell(a, c, r)]]

\* The row an entity value e occupies when all of it is in one place.
RowOf(a, e) ==
    [metadata |-> Metadata(e),
     cells |-> [c \in 0..(a.descriptor.len - 1) |->
                  ComponentValue(e, a.descriptor.components[c])]]

EntityValues == 1..MaxPushes

\* The archetype a call was made on, before and after it.
PreArchetype == last.pre.archetypes[last.ai]

PostArchetype == archetypes[last.ai]

(***************************************************************************)
(* C1  Row alignment.                                                      *)
(***************************************************************************)
\* C1: while no call has faulted, after any sequence of push_entity,
\* swap_entities, swap_drop and swap_remove every live row r < entity_count
\* holds, in its metadata slot and in every column, the bytes of one and
\* the same pushed entity value.
C1_RowAlignment ==
    Running =>
        \A ai \in DOMAIN archetypes :
            \A r \in Rows(archetypes[ai]) :
                /\ MetadataAt(archetypes[ai], r) \in EntityValues
                /\ Row(archetypes[ai], r)
                     = RowOf(archetypes[ai], MetadataAt(archetypes[ai], r))

\* A swap_drop that moved the last row into a hole, in an archetype that has
\* grown, with three aligned rows left of which row 0 is not the first pushed.
C1_Witness ==
    /\ Running
    /\ last.op = "swap_drop"
    /\ last.swapped
    /\ PostArchetype.capacity > DEFAULT_ARCHETYPE_ALLOCATION_SIZE
    /\ PostArchetype.entity_count = 3
    /\ PostArchetype.descriptor.len >= 2
    /\ MetadataAt(PostArchetype, 0) # 1
    /\ \A r \in Rows(PostArchetype) :
         Row(PostArchetype, r) = RowOf(PostArchetype, MetadataAt(PostArchetype, r))

(***************************************************************************)
(* C2  entity_count <= capacity.                                           *)
(***************************************************************************)
\* The invariant of the storage: entity_count <= capacity, and either every
\* column and the metadata hold `capacity` elements or, with capacity zero,
\* nothing is allocated.
WellFormed(a) ==
    /\ a.entity_count <= a.capacity
    /\ \/ /\ a.capacity = 0
          /\ a.entity_metadata.null
          /\ \A c \in 0..(a.descriptor.len - 1) : a.pointers[c].null
       \/ /\ ~a.entity_metadata.null
          /\ ArrLen(a.entity_metadata.mem) = a.capacity
          /\ \A c \in 0..(a.descriptor.len - 1) :
               /\ ~a.pointers[c].null
               /\ ArrLen(a.pointers[c].mem) = a.capacity * ColumnSize(a, c)

\* C2: entity_count <= capacity is kept by every call of push_entity,
\* swap_drop, swap_remove and resize_capacity made on a well-formed
\* archetype (a resize_capacity that asks for no less than entity_count
\* rows), also when the capacity asked for reaches
\* MAX_ENTITIES_PER_ARCHETYPE.
C2_CountWithinCapacity ==
    ( /\ last.op \in {"push_entity", "swap_drop", "swap_remove", "resize_capacity"}
      /\ WellFormed(PreArchetype)
      /\ last.op = "resize_capacity" =>
           PreArchetype.capacity + last.change_in_entity_count
             >= PreArchetype.entity_count )
    => PostArchetype.entity_count <= PostArchetype.capacity

(***************************************************************************)
(* C3  Round trip of push and read.                                        *)
(***************************************************************************)
\* C3: push_entity(m, v) on a well-formed archetype, with any declaration
\* order G of the archetype's types, completes, returns the previous
\* entity_count and adds one to entity_count; read_components_exact of that
\* row returns v field by field in every declaration order; swap_drop of
\* the row restores entity_count.
C3_PushReadRoundTrip ==
    (last.op = "push_entity" /\ WellFormed(PreArchetype)) =>
        /\ Running
        /\ last.index = PreArchetype.entity_count
        /\ PostArchetype.entity_count = PreArchetype.entity_count + 1
        /\ \A G \in ExactGroups(PostArchetype) :
             LET r == ReadComponentsExactUnchecked(PostArchetype, last.index, G)
             IN  r.fault = "none" /\ r.data = GroupValue(last.entity, G)
        /\ LET d == SwapDropUnchecked(PostArchetype, last.index)
           IN  d.fault = "none" /\ d.a.entity_count = PreArchetype.entity_count

(***************************************************************************)
(* C4  Migration on swap_drop.                                             *)
(***************************************************************************)
\* C4: swap_drop(row) returns true iff row is not the last row; entity_count
\* decreases by one; when it returns true the handle of the last row is at
\* `row` afterwards; every other remaining row keeps its handle.
C4_SwapDropMigration ==
    (last.op = "swap_drop" /\ Running) =>
        LET n == PreArchetype.entity_count
        IN  /\ last.swapped = (last.row # n - 1)
            /\ PostArchetype.entity_count = n - 1
            /\ last.swapped =>
                 MetadataAt(PostArchetype, last.row) = MetadataAt(PreArchetype, n - 1)
            /\ \A r \in Rows(PostArchetype) :
                 r # last.row =>
                   MetadataAt(PostArchetype, r) = MetadataAt(PreArchetype, r)

\* swap_drop(0) of three rows: the handle of row 2 is at row 0, row 1 stays.
C4_Witness ==
    /\ Running
    /\ last.op = "swap_drop"
    /\ last.swapped
    /\ last.row = 0
    /\ PreArchetype.entity_count = 3
    /\ MetadataAt(PostArchetype, 0) = MetadataAt(PreArchetype, 2)
    /\ MetadataAt(PostArchetype, 1) = MetadataAt(PreArchetype, 1)

(***************************************************************************)
(* C5  Swap symmetry.                                                      *)
(***************************************************************************)
\* C5: swap_entities(a, b) on distinct live rows exchanges rows a and b in
\* every column and in the metadata and leaves every other byte, the other
\* metadata slots, entity_count and capacity as they were; a second
\* swap_entities(a, b) gives back the archetype of before the first.
C5_SwapSymmetry ==
    (last.op = "swap_entities" /\ Running) =>
        LET pre  == PreArchetype
            post == PostArchetype
            again == SwapEntities(post, last.first, last.second)
        IN  /\ Row(post, last.first) = Row(pre, last.second)
            /\ Row(post, last.second) = Row(pre, last.first)
            /\ \A r \in 0..(pre.capacity - 1) :
                 r \notin {last.first, last.second} => Row(post, r) = Row(pre, r)
            /\ post.entity_count = pre.entity_count
            /\ post.capacity = pre.capacity
            /\ post.descriptor = pre.descriptor
            /\ again.fault = "none"
            /\ again.a = pre

\* A swap of rows 0 and 2 of three different rows in a two-column archetype.
C5_Witness ==
    /\ Running
    /\ last.op = "swap_entities"
    /\ last.first = 0
    /\ last.second = 2
    /\ PreArchetype.descriptor.len = 2
    /\ Row(PreArchetype, 0) # Row(PreArchetype, 2)
    /\ Row(PostArchetype, 0) = Row(PreArchetype, 2)
    /\ Row(PostArchetype, 1) = Row(PreArchetype, 1)

(***************************************************************************)
(* C6  Transition completeness.                                            *)
(***************************************************************************)
\* C6: after find_or_create_archetype_adding_component(src, c),
\* copy_common_components(src, src_row, dst, dst_row) and
\* write_entity(dst_row, metadata, {c}), every component of the source has
\* in the destination row the bytes it has in the source row, and the
\* destination row holds the value of c in the column of c.
C6_TransitionCompleteness ==
    last.op = "write_entity" =>
        /\ Running
        /\ LET src == archetypes[last.source]
               dst == archetypes[last.ai]
           IN  /\ \A c \in 0..(src.descriptor.len - 1) :
                    Cell(dst, IndexOf(dst.descriptor, src.descriptor.components[c]),
                         last.row)
                      = Cell(src, c, last.source_index)
               /\ Cell(dst, IndexOf(dst.descriptor, last.component), last.row)
                    = ComponentValue(last.entity, last.component)

(***************************************************************************)
\* C7: for a group G, in any declaration order, of types that all are
\* columns of the archetype, get_fuzzy_slices_unchecked::<G>() returns for
\* each type T of G the slice based at the archetype's column of T, of
\* length entity_count: no type gets another type's column or a null slot.
C7_FuzzyCorrectness ==
    last.op = "get_fuzzy_slices" =>
        \A i \in DOMAIN last.group :
            last.slices[i] =
                [base |-> [column |-> IndexOf(archetypes[last.ai].descriptor,
                                              last.group[i]),
                           offset |-> 0],
                 len |-> archetypes[last.ai].entity_count]

\* Slices of two types, declared against their sorted order, of an archetype
\* that holds a third type between them, with rows in it.
C7_Witness ==
    /\ last.op = "get_fuzzy_slices"
    /\ archetypes[last.ai].descriptor.len = 3
    /\ archetypes[last.ai].entity_count >= 2
    /\ ArrLen(last.group) = 2
    /\ last.group[0] > last.group[1]
    /\ last.slices[0].base.column = 2
    /\ last.slices[1].base.column = 0
    /\ last.slices[0].len = archetypes[last.ai].entity_count

(***************************************************************************)
(* C8  Iteration.                                                          *)
(***************************************************************************)
\* How often archetype index ai is among the indices yielded.
TimesYielded(yielded, ai) ==
    Cardinality({k \in DOMAIN yielded : yielded[k] = ai})

\* C8: in a registry reached by find_or_create calls,
\* iter_components_matching::<G>() yields every archetype whose descriptor
\* is a superset of G's exactly once and no other archetype.
C8_IterationCompleteness ==
    last.op = "iter_components_matching" =>
        \A ai \in DOMAIN archetypes :
            TimesYielded(last.yielded, ai)
              = IF ArrRange(last.group) \subseteq IdSet(archetypes[ai].descriptor)
                THEN 1 ELSE 0

\* Two archetypes, one a superset of the group and yielded, one not.
C8_Witness ==
    /\ last.op = "iter_components_matching"
    /\ ArrLen(archetypes) = 2
    /\ Len(last.yielded) = 1
    /\ ArrLen(last.group) = 2
    /\ archetypes[last.yielded[1]].descriptor.len > ArrLen(last.group)

(***************************************************************************)
(* C9  Deduplication.                                                      *)
(***************************************************************************)
\* The archetypes of reg whose id is the id of d.
Holding(reg, d) ==
    {i \in DOMAIN reg.archetypes :
        reg.archetypes[i].descriptor.archetype_id = d.archetype_id}

\* C9: the registry never holds two archetypes of one ArchetypeId;
\* find_or_create of a valid descriptor that is present returns the index
\* of its archetype and appends nothing; of one that is not present (in a
\* registry that is not full) it appends exactly one archetype, of that
\* descriptor and the default capacity, and returns its index, the number of
\* archetypes before.
C9_Deduplication ==
    /\ \A i, j \in DOMAIN archetypes :
         i # j => archetypes[i].descriptor.archetype_id
                    # archetypes[j].descriptor.archetype_id
    /\ ( /\ last.op = "find_or_create_archetype"
         /\ IsValid(last.descriptor)
         /\ last.descriptor.len <= MAX_COMPONENTS_PER_ENTITY )
       => IF Holding(last.pre, last.descriptor) # {}
          THEN /\ Running
               /\ last.some
               /\ last.index \in Holding(last.pre, last.descriptor)
               /\ Registry = last.pre
          ELSE IF ~RegistryFull(last.pre)
          THEN /\ Running
               /\ last.some
               /\ last.index = ArrLen(last.pre.archetypes)
               /\ ArrLen(archetypes) = ArrLen(last.pre.archetypes) + 1
               /\ archetypes[last.index]
                    = WithCapacity(last.descriptor, DEFAULT_ARCHETYPE_ALLOCATION_SIZE)
               /\ \A i \in DOMAIN last.pre.archetypes :
                    archetypes[i] = last.pre.archetypes[i]
          ELSE Running /\ ~last.some /\ Registry = last.pre

(***************************************************************************)
(* C10  A bucket for every arity.                                          *)
(***************************************************************************)
\* C10: find, find_mut and find_or_create called with a valid descriptor of
\* any length n in 1..MAX_COMPONENTS_PER_ENTITY, n = MAX_COMPONENTS_PER_ENTITY
\* included, address a bucket the registry has and complete with a Some or
\* None result.
C10_BucketForEveryArity ==
    ( /\ last.op \in {"find_archetype", "find_archetype_mut",
                      "find_or_create_archetype"}
      /\ IsValid(last.descriptor)
      /\ last.descriptor.len \in 1..MAX_COMPONENTS_PER_ENTITY )
    => /\ BucketInBounds(last.pre, last.descriptor.len)
       /\ Running

(***************************************************************************)
(* C11  CapacityExhausted of the registry.                                 *)
(***************************************************************************)
\* C11: the registry never holds more than MAX_ARCHETYPE_COUNT archetypes;
\* find_or_create of a valid descriptor that is not present, on a registry
\* that holds MAX_ARCHETYPE_COUNT archetypes, returns None and changes
\* neither the archetypes nor any bucket; a descriptor that is present is
\* still found on a full registry.
C11_CapacityExhausted ==
    /\ ArrLen(archetypes) <= MAX_ARCHETYPE_COUNT
    /\ ( /\ last.op = "find_or_create_archetype"
         /\ IsValid(last.descriptor)
         /\ last.descriptor.len <= MAX_COMPONENTS_PER_ENTITY
         /\ RegistryFull(last.pre)
         /\ Holding(last.pre, last.descriptor) = {} )
       => /\ Running
          /\ ~last.some
          /\ Registry = last.pre
    /\ ( /\ last.op \in {"find_archetype", "find_archetype_mut",
                         "find_or_create_archetype"}
         /\ RegistryFull(last.pre)
         /\ Holding(last.pre, last.descriptor) # {} )
       => /\ Running
          /\ last.some
          /\ last.index \in Holding(last.pre, last.descriptor)
          /\ Registry = last.pre

(***************************************************************************)
(* C12  Invalid descriptors.                                               *)
(***************************************************************************)
\* C12: find_archetype, find_archetype_mut and find_or_create_archetype
\* called with an invalid descriptor (zero length, or a length above
\* MAX_COMPONENTS_PER_ENTITY) return None and leave the archetypes and the
\* buckets unchanged.
C12_InvalidDescriptorRejected ==
    ( /\ last.op \in {"find_archetype", "find_archetype_mut",
                      "find_or_create_archetype"}
      /\ \/ last.descriptor.len = 0
         \/ last.descriptor.len > MAX_COMPONENTS_PER_ENTITY )
    => /\ Running
       /\ ~last.some
       /\ Registry = last.pre

C12_Witness ==
    /\ Running
    /\ last.op = "find_or_create_archetype"
    /\ last.descriptor.len = 0
    /\ ~last.some
    /\ ArrLen(archetypes) > 0

(***************************************************************************)
(* C13  find_or_create_archetype_adding_component.                         *)
(***************************************************************************)
\* The descriptor of the source archetype of the last
\* find_or_create_archetype_adding_component call.
SourceDescriptor == last.pre.archetypes[last.source_archetype_index].descriptor

\* C13: find_or_create_archetype_adding_component(source_index, c), when it
\* succeeds, returns a destination index different from source_index whose
\* archetype has exactly the source's components plus c; it returns None and
\* creates nothing when c is already in the source or the result would have
\* more than MAX_COMPONENTS_PER_ENTITY components.
C13_AddingComponent ==
    ( /\ last.op = "find_or_create_archetype_adding_component"
      /\ last.source_archetype_index \in DOMAIN last.pre.archetypes )
    => /\ (Running /\ last.some)
          => /\ last.source = last.source_archetype_index
             /\ last.index # last.source_archetype_index
             /\ last.index \in DOMAIN archetypes
             /\ last.component \notin IdSet(SourceDescriptor)
             /\ archetypes[last.index].descriptor =
                    DescriptorOfSet(IdSet(SourceDescriptor) \cup {last.component})
             /\ archetypes[last.source].descriptor = SourceDescriptor
       /\ ( \/ last.component \in IdSet(SourceDescriptor)
            \/ SourceDescriptor.len + 1 > MAX_COMPONENTS_PER_ENTITY )
          => /\ Running
             /\ ~last.some
             /\ Registry = last.pre

C13_Witness ==
    /\ Running
    /\ last.op = "find_or_create_archetype_adding_component"
    /\ last.some
    /\ ArrLen(archetypes) = ArrLen(last.pre.archetypes) + 1
    /\ last.index = ArrLen(last.pre.archetypes)

(***************************************************************************)
(* C14  The two handles of find_or_create_archetype_adding_component.      *)
(***************************************************************************)
\* C14: a find_or_create_archetype_adding_component call that returns Some
\* returns a source handle that points into the buffer the archetypes are
\* stored in after the call, at the source index, and a destination index
\* naming an archetype, also when the call appended an archetype and the
\* Vec grew.
C14_HandlesStayValid ==
    ( /\ last.op = "find_or_create_archetype_adding_component"
      /\ last.source_archetype_index \in DOMAIN last.pre.archetypes
      /\ last.some )
    => /\ Running
       /\ ~Dangling(last.source_archetype, archetypes_raw)
       /\ last.source_archetype.index = last.source
       /\ last.index \in DOMAIN archetypes

(***************************************************************************)
(* C15  CapacityExhausted of an archetype.                                 *)
(***************************************************************************)
\* The capacity the last call asked resize_capacity for: the argument of an
\* explicit call, the growth of a push on a full archetype.
RequestedCapacity ==
    IF last.op = "resize_capacity"
    THEN PreArchetype.capacity + last.change_in_entity_count
    ELSE PreArchetype.capacity + AdditionalCapacity(PreArchetype)

\* C15: a resize_capacity call, or a push_entity on a full archetype, that
\* asks for a capacity of MAX_ENTITIES_PER_ARCHETYPE or more, made on a
\* well-formed archetype, does not fault and leaves capacity, entity_count
\* and every live row as they were.
C15_ExhaustionLeavesRows ==
    ( /\ \/ last.op = "resize_capacity"
         \/ last.op = "push_entity" /\ IsFull(PreArchetype)
      /\ WellFormed(PreArchetype)
      /\ RequestedCapacity >= MAX_ENTITIES_PER_ARCHETYPE )
    => /\ Running
       /\ PostArchetype.capacity = PreArchetype.capacity
       /\ PostArchetype.entity_count = PreArchetype.entity_count
       /\ \A r \in Rows(PreArchetype) :
            Row(PostArchetype, r) = Row(PreArchetype, r)

(***************************************************************************)
(* C16  The amount a push grows a full archetype by.                       *)
(***************************************************************************)
Max(x, y) == IF x >= y THEN x ELSE y

\* C16: push_entity on a well-formed archetype with entity_count = capacity
\* leaves the capacity at capacity + max(DEFAULT_ARCHETYPE_ALLOCATION_SIZE,
\* capacity), whatever the capacity was; with entity_count < capacity it
\* leaves the capacity unchanged.
C16_GrowthAmount ==
    (last.op = "push_entity" /\ WellFormed(PreArchetype)) =>
        PostArchetype.capacity =
            IF IsFull(PreArchetype)
            THEN PreArchetype.capacity
                   + Max(DEFAULT_ARCHETYPE_ALLOCATION_SIZE, PreArchetype.capacity)
            ELSE PreArchetype.capacity

(***************************************************************************)
(* C17  The capacities of an archetype that is only pushed to.             *)
(***************************************************************************)
\* The smallest capacity * 2^k that is at least n.
RECURSIVE Doubled(_, _)
Doubled(capacity, n) ==
    IF capacity >= n THEN capacity ELSE Doubled(2 * capacity, n)

\* C17: an archetype created by find_or_create_archetype and then only
\* pushed to has, after n pushes, n entities and the capacity
\* DEFAULT_ARCHETYPE_ALLOCATION_SIZE * 2^k for the smallest k that makes it
\* at least n, and every row pushed so far reads back as it was pushed,
\* across every growth.
C17_GrowthSequence ==
    \A ai \in DOMAIN archetypes :
        /\ Running
        /\ archetypes[ai].entity_count = pushed
        /\ archetypes[ai].capacity
             = Doubled(DEFAULT_ARCHETYPE_ALLOCATION_SIZE, pushed)
        /\ \A r \in Rows(archetypes[ai]) :
             Row(archetypes[ai], r) = RowOf(archetypes[ai], r + 1)

(***************************************************************************)
(* C18  The capacity never decreases.                                      *)
(***************************************************************************)
\* C18: no push_entity, swap_drop or swap_remove call made on a well-formed
\* archetype leaves it with a smaller capacity than it had, and swap_drop
\* and swap_remove leave the capacity as it was.
C18_CapacityMonotonic ==
    ( /\ last.op \in {"push_entity", "swap_drop", "swap_remove"}
      /\ WellFormed(PreArchetype) )
    => /\ PostArchetype.capacity >= PreArchetype.capacity
       /\ last.op \in {"swap_drop", "swap_remove"}
            => PostArchetype.capacity = PreArchetype.capacity

(***************************************************************************)
(* C19  swap_remove.                                                       *)
(***************************************************************************)
\* C19: swap_remove(row) with row < entity_count and a group G of exactly
\* the archetype's types returns, field by field in the declaration order
\* of G, the values stored at `row` before the call; it calls no drop
\* handler; entity_count decreases by one; it returns swapped = true iff
\* row was not the last row, and then the row that was last (every column
\* and the metadata) is at `row`.
C19_SwapRemove ==
    (last.op = "swap_remove" /\ WellFormed(PreArchetype)) =>
        LET n == PreArchetype.entity_count
        IN  /\ Running
            /\ DOMAIN last.data = DOMAIN last.group
            /\ \A i \in DOMAIN last.group :
                 last.data[i] =
                   Cell(PreArchetype,
                        IndexOf(PreArchetype.descriptor, last.group[i]), last.row)
            /\ last.drops = EmptyArr
            /\ PostArchetype.entity_count = n - 1
            /\ last.swapped = (last.row # n - 1)
            /\ last.swapped => Row(PostArchetype, last.row) = Row(PreArchetype, n - 1)

\* swap_remove(0) of three rows of two columns, read in descending order of
\* the types: the values of row 0 are returned and row 2 is at row 0.
C19_Witness ==
    /\ Running
    /\ last.op = "swap_remove"
    /\ last.swapped
    /\ last.row = 0
    /\ PreArchetype.entity_count = 3
    /\ ArrLen(last.group) >= 2
    /\ last.group[0] > last.group[1]
    /\ last.data = GroupValue(MetadataAt(PreArchetype, 0), last.group)
    /\ Row(PostArchetype, 0) = Row(PreArchetype, 2)

(***************************************************************************)
(* C20  The frame of write_entity.                                         *)
(***************************************************************************)
\* C20: write_entity(row, metadata, group) on a well-formed archetype, with
\* row inside the allocation and a group of exactly the archetype's types,
\* sets the columns and the metadata slot of `row` to the group's values and
\* changes nothing else: entity_count, capacity and the descriptor are as
\* before, every other row of the allocation is as before, and no drop
\* handler is called for the row's previous occupant.
C20_WriteEntityFrame ==
    ( /\ last.op = "write_entity"
      /\ WellFormed(PreArchetype)
      /\ ArrRange(last.group) = IdSet(PreArchetype.descriptor)
      /\ last.row \in AllocatedRows(PreArchetype) )
    => /\ Running
       /\ PostArchetype.entity_count = PreArchetype.entity_count
       /\ PostArchetype.capacity = PreArchetype.capacity
       /\ PostArchetype.descriptor = PreArchetype.descriptor
       /\ WellFormed(PostArchetype)
       /\ Row(PostArchetype, last.row) = RowOf(PostArchetype, last.entity)
       /\ \A r \in AllocatedRows(PreArchetype) :
            r # last.row => Row(PostArchetype, r) = Row(PreArchetype, r)
       /\ last.drops = EmptyArr

\* write_entity over a live row of an archetype of two columns that holds
\* three rows: the row changes and its neighbours do not.
C20_Witness ==
    /\ Running
    /\ last.op = "write_entity"
    /\ PreArchetype.entity_count = 3
    /\ PreArchetype.descriptor.len >= 2
    /\ last.row = 1
    /\ Row(PostArchetype, 1) # Row(PreArchetype, 1)
    /\ Row(PostArchetype, 1) = RowOf(PostArchetype, last.entity)
    /\ Row(PostArchetype, 0) = Row(PreArchetype, 0)
    /\ Row(PostArchetype, 2) = Row(PreArchetype, 2)

(***************************************************************************)
(* C21  as_sorted_pointers.                                                *)
(***************************************************************************)
\* The types the filled slots of ptrs point to, slot by slot, for a group
\* value declared as G.
SlotTypes(G, ptrs) == [j \in 0..(GroupLen(G) - 1) |-> G[ptrs[j]]]

\* C21: as_sorted_pointers of a group value declared as G, in any order of
\* its types, stores the address of field i in slot unsorted_to_sorted(i);
\* slot j then holds the field whose type is the j-th of the group's types
\* in ascending order, the same for every declaration order of the same
\* types; the slots from the group's length on keep what they held.
C21_SortedProjectionWrite ==
    last.op = "as_sorted_pointers" =>
        /\ \A i \in DOMAIN last.group :
             last.ptrs[UnsortedToSorted(last.group, i)] = i
        /\ \A j \in 0..(GroupLen(last.group) - 1) :
             /\ last.ptrs[j] \in DOMAIN last.group
             /\ last.group[last.ptrs[j]] = SortedIds(ArrRange(last.group))[j]
        /\ \A H \in Groups :
             ArrRange(H) = ArrRange(last.group) =>
               SlotTypes(H, AsSortedPointersInto(H, last.before))
                 = SlotTypes(last.group, last.ptrs)
        /\ \A j \in ColumnIndices :
             j >= GroupLen(last.group) => last.ptrs[j] = last.before[j]

\* as_sorted_pointers of a value declared (B, C, A) into an array that held
\* other pointers: A's field, the third, is in slot 0.
C21_Witness ==
    /\ last.op = "as_sorted_pointers"
    /\ GroupLen(last.group) = 3
    /\ last.group[0] = 2 /\ last.group[1] = 3 /\ last.group[2] = 1
    /\ last.before[3] = StalePointer(3)
    /\ last.ptrs[0] = 2 /\ last.ptrs[1] = 0 /\ last.ptrs[2] = 1
    /\ last.ptrs[3] = StalePointer(3)

(***************************************************************************)
(* C22  pointers_as_ref_tuple, pointers_as_mut_ref_tuple, slice_unchecked, *)
(* slice_unchecked_mut.                                                    *)
(***************************************************************************)
\* C22: for a group G and an array of sorted column pointers, element i of
\* the tuple of references is based at sorted_pointers[unsorted_to_sorted(i)]
\* and element i of the tuple of slices is the slice of the asked length
\* based there; on the array as_sorted_pointers filled from a group value,
\* element i of the tuple for a declaration order G of the value's types
\* refers to the value's field of type G[i], so for the value's own order it
\* refers to field i.
C22_SortedProjectionRead ==
    /\ last.op \in {"pointers_as_ref_tuple", "pointers_as_mut_ref_tuple"} =>
         /\ DOMAIN last.tuple = DOMAIN last.group
         /\ \A i \in DOMAIN last.group :
              /\ last.tuple[i]
                   = last.sorted_pointers[UnsortedToSorted(last.group, i)]
              /\ last.tuple[i] \in DOMAIN last.source
              /\ last.source[last.tuple[i]] = last.group[i]
              /\ last.group = last.source => last.tuple[i] = i
    /\ last.op \in {"slice_unchecked", "slice_unchecked_mut"} =>
         /\ DOMAIN last.slices = DOMAIN last.group
         /\ \A i \in DOMAIN last.group :
              /\ last.slices[i].base
                   = last.sorted_pointers[UnsortedToSorted(last.group, i)]
              /\ last.slices[i].len = last.len

\* The pointers of a value declared (B, C, A) read back as (C, A, B): the
\* tuple refers to the value's second, third and first field.
C22_Witness ==
    /\ last.op = "pointers_as_mut_ref_tuple"
    /\ GroupLen(last.group) = 3
    /\ last.source[0] = 2 /\ last.source[1] = 3 /\ last.source[2] = 1
    /\ last.group[0] = 3 /\ last.group[1] = 1 /\ last.group[2] = 2
    /\ last.tuple[0] = 1 /\ last.tuple[1] = 2 /\ last.tuple[2] = 0

(***************************************************************************)
(* C23  Stable indices.                                                    *)
(***************************************************************************)
\* One step of the registry: every archetype stays at its index with its
\* descriptor, so the number of archetypes does not decrease.
KeepsArchetypes ==
    /\ ArrLen(archetypes') >= ArrLen(archetypes)
    /\ \A i \in DOMAIN archetypes :
         /\ i \in DOMAIN archetypes'
         /\ archetypes'[i].descriptor = archetypes[i].descriptor

\* A lookup of a descriptor the registry held resolved to the index where
\* the registry held it.
ResolvesToHeldIndex ==
    ( /\ last.op \in {"find_archetype", "find_archetype_mut",
                      "find_or_create_archetype"}
      /\ Holding(last.pre, last.descriptor) # {} )
    => /\ Running
       /\ last.some
       /\ last.index \in Holding(last.pre, last.descriptor)
       /\ archetypes[last.index].descriptor = last.descriptor

\* C23: the archetypes are append-only: no call removes an archetype, moves
\* it to another index or changes its descriptor; and find_archetype,
\* find_archetype_mut and find_or_create_archetype of a descriptor that was
\* created earlier return the index it was created at, however many
\* archetypes were created since.
C23_StableIndices == [][KeepsArchetypes]_vars /\ []ResolvesToHeldIndex

\* A descriptor created first is found at index 0 after another archetype
\* was created.
C23_Witness ==
    /\ Running
    /\ last.op \in {"find_archetype", "find_archetype_mut"}
    /\ last.some
    /\ last.index = 0
    /\ ArrLen(archetypes) = MAX_ARCHETYPE_COUNT
    /\ archetypes[0].descriptor = last.descriptor

(***************************************************************************)
(* C24  Consistency of the buckets.                                        *)
(***************************************************************************)
\* The entries of all buckets that name archetype index ai, as
\* <<bucket, position>>.
EntriesOf(ai) ==
    {<<n, k>> \in (DOMAIN sorted_mappings) \X (0..MAX_ARCHETYPE_COUNT) :
        /\ k \in DOMAIN sorted_mappings[n]
        /\ sorted_mappings[n][k].archetype_index = ai}

\* C24: after any sequence of registry calls every bucket is sorted strictly
\* ascending by archetype id; every index of the archetypes is in exactly
\* one entry of one bucket; and every entry (id, index) of bucket n names an
\* archetype whose descriptor has that id and n components.
C24_IndexConsistency ==
    /\ \A n \in DOMAIN sorted_mappings :
         \A k \in DOMAIN sorted_mappings[n] :
            /\ k + 1 \in DOMAIN sorted_mappings[n] =>
                 IdLess(sorted_mappings[n][k].id, sorted_mappings[n][k + 1].id)
            /\ sorted_mappings[n][k].archetype_index \in DOMAIN archetypes
            /\ archetypes[sorted_mappings[n][k].archetype_index]
                 .descriptor.archetype_id = sorted_mappings[n][k].id
            /\ archetypes[sorted_mappings[n][k].archetype_index]
                 .descriptor.len = n
    /\ \A ai \in DOMAIN archetypes : Cardinality(EntriesOf(ai)) = 1

\* Two archetypes of one arity, the one created second having the smaller
\* id: its key was inserted before the key of the first.
C24_Witness ==
    /\ Running
    /\ ArrLen(archetypes) = 2
    /\ \E n \in DOMAIN sorted_mappings :
         /\ ArrLen(sorted_mappings[n]) = 2
         /\ sorted_mappings[n][0].archetype_index = 1
         /\ sorted_mappings[n][1].archetype_index = 0

(***************************************************************************)
(* C25  resize_capacity.                                                   *)
(***************************************************************************)
\* The storage of the archetype holds exactly `capacity` rows: every column
\* capacity * size bytes, the metadata capacity slots.
AllocatedFor(a, capacity) ==
    /\ ~a.entity_metadata.null
    /\ ArrLen(a.entity_metadata.mem) = capacity
    /\ \A c \in 0..(a.descriptor.len - 1) :
         /\ ~a.pointers[c].null
         /\ ArrLen(a.pointers[c].mem) = capacity * ColumnSize(a, c)

\* Nothing of the archetype is allocated.
Released(a) ==
    /\ a.entity_metadata.null
    /\ \A c \in 0..(a.descriptor.len - 1) : a.pointers[c].null

\* The rows both capacities have room for hold the bytes they held.
KeepsRowsWithin(capacity) ==
    \A r \in 0..(capacity - 1) :
        r < PreArchetype.capacity => Row(PostArchetype, r) = Row(PreArchetype, r)

\* What C25 says of one resize_capacity call.
ResizeEffect ==
    /\ Running
    /\ PostArchetype.entity_count = PreArchetype.entity_count
    /\ PostArchetype.descriptor = PreArchetype.descriptor
    /\ IF ResizeDeallocates(RequestedCapacity)
       THEN Released(PostArchetype) /\ PostArchetype.capacity = 0
       ELSE /\ PostArchetype.capacity = RequestedCapacity
            /\ AllocatedFor(PostArchetype, RequestedCapacity)
            /\ KeepsRowsWithin(RequestedCapacity)

\* C25: resize_capacity(delta) on a well-formed archetype releases every
\* column and the metadata (null pointers, capacity 0) when capacity + delta
\* is <= 0 or >= MAX_ENTITIES_PER_ARCHETYPE, and otherwise leaves the
\* capacity at exactly capacity + delta with every column and the metadata
\* resized to it; entity_count is unchanged in both cases.
C25_ResizeCapacity ==
    (last.op = "resize_capacity" /\ WellFormed(PreArchetype)) => ResizeEffect

\* The same for calls made on an archetype whose storage is allocated.
ResizeOfAllocated ==
    ( /\ last.op = "resize_capacity"
      /\ WellFormed(PreArchetype)
      /\ ~Released(PreArchetype) ) => ResizeEffect

(***************************************************************************)
(* C26  The range check of find_or_create_archetype_adding_component.      *)
(***************************************************************************)
\* C26: find_or_create_archetype_adding_component with a
\* source_archetype_index that names no archetype (any index >=
\* archetypes.len(), the length itself included) returns None, reads no
\* archetype and leaves the registry as it was.
C26_SourceIndexRangeCheck ==
    ( /\ last.op = "find_or_create_archetype_adding_component"
      /\ last.source_archetype_index >= ArrLen(last.pre.archetypes) )
    => /\ Running
       /\ ~last.some
       /\ Registry = last.pre

\* The same for the indices above archetypes.len().
SourceIndexAboveLength ==
    ( /\ last.op = "find_or_create_archetype_adding_component"
      /\ last.source_archetype_index > ArrLen(last.pre.archetypes) )
    => /\ Running
       /\ ~last.some
       /\ Registry = last.pre

(***************************************************************************)
(* C27  What swap_drop drops.                                              *)
(***************************************************************************)
\* C27: swap_drop(row) with row < entity_count calls the drop handler of
\* every column exactly once, with count 1, on the bytes the entity at
\* `row` had in that column before the call (never on those of the last
\* entity unless row is the last row); every entity that remains holds the
\* values it held: the rows other than `row` as they were, and row `row`
\* the former last entity when a swap was made.
C27_SwapDropDropsRow ==
    last.op = "swap_drop" =>
        LET n == PreArchetype.entity_count
        IN  /\ Running
            /\ DOMAIN last.drops = 0..(PreArchetype.descriptor.len - 1)
            /\ \A c \in DOMAIN last.drops :
                 /\ last.drops[c].column = c
                 /\ last.drops[c].count = 1
                 /\ last.drops[c].bytes = Cell(PreArchetype, c, last.row)
            /\ \A r \in Rows(PostArchetype) :
                 Row(PostArchetype, r) =
                    IF r = last.row THEN Row(PreArchetype, n - 1)
                    ELSE Row(PreArchetype, r)

\* swap_drop(0) of an archetype of two columns and three entities: the two
\* handlers are handed the cells of row 0, which differ from those of the
\* last row.
C27_Witness ==
    /\ Running
    /\ last.op = "swap_drop"
    /\ last.row = 0
    /\ PreArchetype.entity_count = 3
    /\ PreArchetype.descriptor.len = 2
    /\ ArrLen(last.drops) = 2
    /\ \A c \in 0..1 :
         /\ last.drops[c].bytes = Cell(PreArchetype, c, 0)
         /\ last.drops[c].bytes # Cell(PreArchetype, c, 2)
    /\ Row(PostArchetype, 0) = Row(PreArchetype, 2)

(***************************************************************************)
(* C28  Exactly-once disposal.                                             *)
(***************************************************************************)
\* How often the component value x was disposed of so far.
TimesDisposed(x) == IF x \in DOMAIN disposals THEN disposals[x] ELSE 0

\* The entity value e is stored in a row below entity_count.
LiveEntity(a, e) == \E r \in Rows(a) : Row(a, r) = RowOf(a, e)

\* C28: in every sequence of push_entity, swap_entities, swap_drop and
\* swap_remove followed by one drop_entities, nothing but components of
\* pushed entities is disposed of and none twice; while the archetype is in
\* use the components of an entity still stored are not disposed of and
\* those of an entity removed (dropped by swap_drop, or moved out by
\* swap_remove) are disposed of exactly once; after drop_entities every
\* component of every entity ever pushed is disposed of exactly once.
C28_ExactlyOnceDisposal ==
    \A ai \in DOMAIN archetypes :
        LET a == archetypes[ai]
        IN  /\ \A x \in DOMAIN disposals :
                 /\ x[1] \in 1..pushed
                 /\ x[2] \in IdSet(a.descriptor)
                 /\ disposals[x] = 1
            /\ \A e \in 1..pushed, t \in IdSet(a.descriptor) :
                 TimesDisposed(<<e, t>>) =
                    IF ~TornDown /\ LiveEntity(a, e) THEN 0 ELSE 1

\* Four entities of two components pushed, two of them removed before the
\* teardown, which hands each drop handler the two rows left; all eight
\* component values are disposed of once.
C28_Witness ==
    /\ Running
    /\ TornDown
    /\ pushed = 4
    /\ PostArchetype.descriptor.len = 2
    /\ PostArchetype.entity_count = 2
    /\ \A c \in 0..1 : last.drops[c].count = 2
    /\ Cardinality(DOMAIN disposals) = 8
    /\ \A x \in DOMAIN disposals : disposals[x] = 1

(***************************************************************************)
(* C29  read_components_exact is read-only.                                *)
(***************************************************************************)
\* C29: read_components_exact(row) leaves the archetype as it was:
\* entity_count, capacity, the bytes of every column and every metadata
\* slot; the row stays live, and a read of the same row made next returns
\* the same values.
C29_ReadIsReadOnly ==
    last.op = "read_components_exact" =>
        /\ PostArchetype.entity_count = PreArchetype.entity_count
        /\ PostArchetype.capacity = PreArchetype.capacity
        /\ PostArchetype.pointers = PreArchetype.pointers
        /\ PostArchetype.entity_metadata = PreArchetype.entity_metadata
        /\ Registry = last.pre
        /\ last.row \in Rows(PostArchetype)
        /\ LET again == ReadComponentsExactUnchecked(PostArchetype, last.row,
                                                     last.group)
           IN  again.fault = fault /\ again.data = last.data

\* A read of row 0 of two rows in two columns, declared against the column
\* order: the values of the row come back and the archetype is as before.
C29_Witness ==
    /\ Running
    /\ last.op = "read_components_exact"
    /\ last.row = 0
    /\ PreArchetype.entity_count = 2
    /\ ArrLen(last.group) = 2
    /\ last.group[0] > last.group[1]
    /\ \A i \in DOMAIN last.group :
         last.data[i] = Cell(PreArchetype,
                             IndexOf(PreArchetype.descriptor, last.group[i]), 0)
    /\ PostArchetype = PreArchetype

(***************************************************************************)
(* C30  The width of archetype indices.                                    *)
(***************************************************************************)
\* The last call was a find_or_create_archetype that created an archetype.
CreatedArchetype ==
    /\ last.op = "find_or_create_archetype"
    /\ ArrLen(archetypes) = ArrLen(last.pre.archetypes) + 1

\* C30: every archetype index kept in a bucket, and every index
\* find_or_create_archetype returns, is the position of the archetype in
\* archetypes, not that position cut to the width of u16: the positions
\* cast (archetypes.len() before the push for the key, archetypes.len()
\* after it for the result) are at most u16::MAX, thanks to the check
\* against MAX_ARCHETYPE_COUNT.
C30_IndexWidth ==
    /\ ArrLen(archetypes) <= U16_MAX
    /\ \A n \in DOMAIN sorted_mappings :
         \A k \in DOMAIN sorted_mappings[n] :
            LET key == sorted_mappings[n][k]
            IN  /\ key.archetype_index \in DOMAIN archetypes
                /\ archetypes[key.archetype_index].descriptor.archetype_id = key.id
    /\ (last.op = "find_or_create_archetype" /\ Running /\ last.some) =>
         /\ last.index \in DOMAIN archetypes
         /\ archetypes[last.index].descriptor = last.descriptor
    /\ CreatedArchetype =>
         LET position == ArrLen(last.pre.archetypes)
         IN  /\ AsU16(position) = position
             /\ AsU16(position + 1) = position + 1
             /\ last.index = position
             /\ \E n \in DOMAIN sorted_mappings :
                  \E k \in DOMAIN sorted_mappings[n] :
                     /\ sorted_mappings[n][k].archetype_index = position
                     /\ sorted_mappings[n][k].id = last.descriptor.archetype_id

\* The archetype that fills the registry: its position, archetypes.len()
\* after the push and u16::MAX coincide with MAX_ARCHETYPE_COUNT at the cast.
C30_Witness ==
    /\ Running
    /\ CreatedArchetype
    /\ last.some
    /\ ArrLen(archetypes) = MAX_ARCHETYPE_COUNT
    /\ ArrLen(archetypes) = U16_MAX
    /\ last.index = MAX_ARCHETYPE_COUNT - 1

=============================================================================
